---- MODULE Spec2Model ----
(***************************************************************************)
(* Verification model of scythe's recursive scatter/gather fan-out         *)
(* (src/src/scythe/scatter_gather.py, src/src/scythe/utils/results.py).    *)
(*                                                                         *)
(* Four specifications share the module:                                   *)
(*   Spec         one tree run: the scatter_gather task of every node, the *)
(*                task engine returning leaf units and child runs in any   *)
(*                order, storage faults;                                   *)
(*   ProbeSpec    the functions of the package applied once to inputs      *)
(*                drawn from bounded sets;                                 *)
(*   RegistrySpec sequences of calls on the experiment registry;           *)
(*   AllocateSpec one call of BaseExperiment.allocate                      *)
(*                (src/src/scythe/allocate.py).                            *)
(* FairSpec is Spec with the fairness the task engine's scheduling gives.  *)
(***************************************************************************)
EXTENDS Integers, Sequences, FiniteSets, TLC

\* ------------------------------------------------------------------ bounds
MaxSpecs == 4
MaxFactor == 2
MaxDepth == 2
MaxFaults == 1
MaxOutputs == 3
MaxTasks == 2
MaxAllocSpecs == 2
MaxRows == 2

VARIABLES
    nodes,      \* recursion path -> the scatter_gather run of that node
    faults,     \* storage faults injected so far
    probe,      \* last call of a function: its inputs and what it returned
    experiments_dict,   \* ExperimentRegistry._experiments_dict: name -> task
    allocation  \* one call of BaseExperiment.allocate: its position and effects

vars == <<nodes, faults, probe, experiments_dict, allocation>>

\* ------------------------------------------------------------ data model
\* RecursionMap.max_depth: Field(default=10, ge=0, le=10)
MaxDepthLimit == 10

\* Optional[str] run ids: None is 0, the engine's run ids are positive.
NoRunId == 0

\* RecursionMap.path: None and the root are the empty sequence (a present but
\* empty list is rejected by validate_path_is_length_ge_1).
RootPath == <<>>

RecursionSpec(factor, offset) == [factor |-> factor, offset |-> offset]

\* Optional values handed to a constructor: None, or a value.
None == [is_none |-> TRUE, value |-> 0]
Some(value) == [is_none |-> FALSE, value |-> value]

\* RecursionSpec.validate_offset_less_than_factor (mode="before"): raises
\* ValueError when an offset is given and offset >= factor.
ValidateOffsetLessThanFactorStrict(factor, offset) ==
    IF offset.is_none THEN FALSE ELSE offset.value > factor

ValidateOffsetLessThanFactor(factor, offset) ==
    IF offset.is_none THEN FALSE ELSE offset.value >= factor

\* RecursionSpec(factor=..., offset=...) raises: the before-validator, then the
\* field constraints factor ge=1 and offset ge=0.
RecursionSpecRaises(factor, offset) ==
    \/ ValidateOffsetLessThanFactor(factor, offset)
    \/ factor < 1
    \/ (~offset.is_none /\ offset.value < 0)

\* RecursionMap.validate_path_is_length_ge_1 (mode="before"): raises ValueError
\* when a path is given and it is empty.
ValidatePathAcceptsEmpty(path) == FALSE

ValidatePathIsLengthGe1(path) ==
    IF path.is_none THEN FALSE ELSE Len(path.value) < 1

\* RecursionMap(path=..., factor=..., max_depth=...) raises: the path
\* validator, then the field constraints factor ge=1, max_depth ge=0 le=10.
RecursionMapRaises(path, factor, max_depth) ==
    \/ ValidatePathIsLengthGe1(path)
    \/ factor < 1
    \/ max_depth < 0
    \/ max_depth > MaxDepthLimit

\* RecursionMap.is_root: len(self.path or []) == 0
IsRoot(path) == Len(IF path.is_none THEN <<>> ELSE path.value) = 0

\* ctx.workflow_run_id of the run at a path: one distinct positive id per run.
RECURSIVE RunIdOf(_)
RunIdOf(path) ==
    IF path = <<>> THEN 1
    ELSE LET last == path[Len(path)]
         IN  RunIdOf(SubSeq(path, 1, Len(path) - 1)) * (last.factor + 1) + last.offset + 1

\* An ExperimentInputSpec: its identity fields.
InputSpec(sort_index, root_id) ==
    [sort_index |-> sort_index, root_workflow_run_id |-> root_id]

\* The specs blob allocate uploads for the root: sort_index 0..n-1 by position.
RootSpecs(n) == [i \in 1..n |-> InputSpec(i - 1, NoRunId)]

\* Optional[pd.DataFrame]
NoFrame == [present |-> FALSE, rows |-> <<>>]
Frame(rows) == [present |-> TRUE, rows |-> rows]

NoTables == [k \in {} |-> <<>>]

\* ------------------------------------------------------- construct_filekey
\* str(n) for the depths a path can have.
Str(n) == <<"0", "1", "2", "3", "4", "5", "6", "7", "8", "9", "10", "11">>[n + 1]

\* ScatterGatherInput.construct_filekey: the key as its "/"-separated
\* segments, the last one split at its "." into file name and suffix.
ConstructFilekeyParentDepth(bucket_prefix, experiment_id, path, filename, mode, workflow_run_id, suffix) ==
    LET output_key_base == <<bucket_prefix, experiment_id, mode>>
        output_results_dir ==
            IF Len(path) > 1 THEN <<"recurse", Str(Len(path) - 1)>> ELSE <<"root">>
    IN  output_key_base \o output_results_dir \o <<workflow_run_id, filename, suffix>>

ConstructFilekey(bucket_prefix, experiment_id, path, filename, mode, workflow_run_id, suffix) ==
    LET output_key_base == <<bucket_prefix, experiment_id, mode>>
        output_results_dir ==
            IF path # <<>> THEN <<"recurse", Str(Len(path))>> ELSE <<"root">>
        output_key_prefix == output_key_base \o output_results_dir
    IN  output_key_prefix \o <<workflow_run_id, filename, suffix>>

\* ------------------------------------------------------- is_base_case
\* ScatterGatherInput.is_base_case
IsBaseCaseNoZeroDepth(n_specs, factor, max_depth, path) ==
    LET too_few_specs == n_specs <= factor
        past_max_depth == IF path # <<>> THEN Len(path) >= max_depth ELSE FALSE
    IN  too_few_specs \/ past_max_depth

IsBaseCaseNeedsSpecs(n_specs, factor, max_depth, path) ==
    LET too_few_specs == n_specs > 0 /\ n_specs <= factor
        past_max_depth ==
            (IF path # <<>> THEN Len(path) >= max_depth ELSE FALSE) \/ max_depth = 0
    IN  too_few_specs \/ past_max_depth

IsBaseCaseDepthOffByOne(n_specs, factor, max_depth, path) ==
    LET too_few_specs == n_specs <= factor
        past_max_depth ==
            (IF path # <<>> THEN Len(path) > max_depth ELSE FALSE) \/ max_depth = 0
    IN  too_few_specs \/ past_max_depth

IsBaseCase(n_specs, factor, max_depth, path) ==
    LET too_few_specs == n_specs <= factor
        past_max_depth ==
            (IF path # <<>> THEN Len(path) >= max_depth ELSE FALSE) \/ max_depth = 0
    IN  too_few_specs \/ past_max_depth

\* ------------------------------------------------------------- results
\* What one dispatched run hands back through aio_run_many(return_exceptions=True):
\* its return value, or the exception it ended with.
Returned(value) == [is_exception |-> FALSE, value |-> value, msg |-> 0]
Raised(msg) == [is_exception |-> TRUE, value |-> NoTables, msg |-> msg]

\* str(exception) of the unit run for a spec: one message per spec.
UnitErrorMsg(spec) == 100 + spec.sort_index

\* str(exception) of a failed child scatter_gather run.
ChildErrorMsg(path) == 200 + RunIdOf(path)

\* The registered task of a leaf unit: the experiment's output with its
\* `scalars` table, one row indexed by the spec's identity fields.
UnitOutput(spec) == [dataframes |-> ("scalars" :> <<[key |-> spec]>>)]

\* ExperimentOutputSpec._add_scalars: nothing to do for an output without
\* scalar fields; ScalarInDataframesError when a `scalars` table is already
\* there; else the one-row `scalars` table indexed by the spec is added.
AddScalars(dataframes, has_scalar_fields, input_spec) ==
    IF ~has_scalar_fields THEN [raised |-> FALSE, dataframes |-> dataframes]
    ELSE IF "scalars" \in DOMAIN dataframes
    THEN [raised |-> TRUE, dataframes |-> dataframes]
    ELSE [raised |-> FALSE,
          dataframes |-> dataframes @@ ("scalars" :> <<[key |-> input_spec]>>)]

\* pd.DataFrame(columns, index=index): every column given as a list must be as
\* long as the index, else the constructor raises ValueError.
DataFrameRaises(columns, index) ==
    \E c \in DOMAIN columns : Len(columns[c]) # Len(index)

DataFrame(columns, index) ==
    [i \in 1..Len(index) |->
        [key |-> index[i], missing |-> columns.missing[i], msg |-> columns.msg[i]]]

\* model_dump(mode="json") of a child payload (ScatterGatherInput): the nested
\* models recursion_map and storage_settings are dumped as dicts.
PayloadDump(path, payload) ==
    [recursion_map |-> [path |-> path, factor |-> payload.factor,
                        max_depth |-> payload.max_depth],
     storage_settings |-> [BUCKET_PREFIX |-> "scythe"],
     save_errors |-> payload.save_errors]

\* The fields of a dumped model that hold a dict.
DictFields == {"recursion_map", "storage_settings"}

\* pd.MultiIndex.from_frame(pd.DataFrame(rows)) factorizes every column, which
\* hashes every cell: a dict cell raises TypeError (unhashable type).
FromFrameNeverRaises(rows) == FALSE

FromFrameRaises(rows) ==
    \E k \in 1..Len(rows) : DOMAIN rows[k] \cap DictFields # {}

\* The positions of a list that hold an exception, ascending.
RECURSIVE ErrorPositions(_, _)
ErrorPositions(results, i) ==
    IF i > Len(results) THEN <<>>
    ELSE (IF results[i].is_exception THEN <<i>> ELSE <<>>) \o ErrorPositions(results, i + 1)

IsSafe(r) == ~r.is_exception
IsError(r) == r.is_exception

\* sift_results(spec_data, results) -> (safe_results, error_df), or the
\* TypeError of MultiIndex.from_frame, or the ValueError of the DataFrame
\* constructor.
SiftRaised(exc) == [raised |-> TRUE, exc |-> exc, safe_results |-> <<>>, error_df |-> NoFrame]

SiftReturned(safe_results, error_df) ==
    [raised |-> FALSE, exc |-> "none", safe_results |-> safe_results, error_df |-> error_df]

SiftResults(spec_data, results) ==
    LET safe_results == SelectSeq(results, IsSafe)
        positions == ErrorPositions(results, 1)
        error_specs == [k \in 1..Len(positions) |-> spec_data[positions[k]]]
        raised_results == SelectSeq(results, IsError)
        error_msgs == [k \in 1..Len(raised_results) |-> raised_results[k].msg]
        columns == [missing |-> <<FALSE>>, msg |-> error_msgs]
    IN  IF error_specs # <<>>
        THEN IF FromFrameRaises(error_specs) THEN SiftRaised("TypeError")
             ELSE IF DataFrameRaises(columns, error_specs) THEN SiftRaised("ValueError")
             ELSE SiftReturned(safe_results, Frame(DataFrame(columns, error_specs)))
        ELSE SiftReturned(safe_results, NoFrame)

\* pd.concat([d[key] for d in dataframe_results if key in d], axis=0)
RECURSIVE ConcatKeyReversed(_, _)
ConcatKeyReversed(dataframe_results, key) ==
    IF dataframe_results = <<>> THEN <<>>
    ELSE ConcatKeyReversed(Tail(dataframe_results), key)
         \o (IF key \in DOMAIN Head(dataframe_results)
             THEN Head(dataframe_results)[key] ELSE <<>>)

ConcatKeyFirstTwo(dataframe_results, key) ==
    LET with_key == SelectSeq(dataframe_results, LAMBDA d : key \in DOMAIN d)
    IN  IF Len(with_key) <= 2
        THEN (IF with_key = <<>> THEN <<>>
              ELSE with_key[1][key] \o (IF Len(with_key) = 2 THEN with_key[2][key] ELSE <<>>))
        ELSE with_key[1][key] \o with_key[2][key]

RECURSIVE ConcatKey(_, _)
ConcatKey(dataframe_results, key) ==
    IF dataframe_results = <<>> THEN <<>>
    ELSE (IF key \in DOMAIN Head(dataframe_results)
          THEN Head(dataframe_results)[key] ELSE <<>>)
         \o ConcatKey(Tail(dataframe_results), key)

\* transpose_dataframe_dict
TransposeDataframeDict(dataframe_results) ==
    LET all_keys == UNION {DOMAIN dataframe_results[i] : i \in 1..Len(dataframe_results)}
    IN  [key \in all_keys |-> ConcatKey(dataframe_results, key)]

\* combine_experiment_outputs
CombineExperimentOutputs(experiment_outputs) ==
    [dataframes |->
        TransposeDataframeDict(
            [i \in 1..Len(experiment_outputs) |-> experiment_outputs[i].dataframes])]

\* GatheredExperimentRuns
Gathered(success, errors) == [success |-> success, errors |-> errors]

\* key.lower(), over the table names of the model.
Lower(key) == IF key = "Errors" THEN "errors" ELSE key

\* "error" in name, over the lower-case table names of the model.
HasErrorSubstring(name) == name \in {"errors", "error_result", "terror"}

\* "error" in key.lower()
ContainsError(key) == HasErrorSubstring(Lower(key))

\* save_and_upload_parquets: the tables uploaded, by name.
SaveAndUploadParquetsAlwaysSkips(collected_dfs, save_errors) ==
    LET kept == {key \in DOMAIN collected_dfs : ~ContainsError(key)}
    IN  [key \in kept |-> collected_dfs[key]]

SaveAndUploadParquets(collected_dfs, save_errors) ==
    LET kept == {key \in DOMAIN collected_dfs : ~(ContainsError(key) /\ ~save_errors)}
    IN  [key \in kept |-> collected_dfs[key]]

\* ScatterGatherResult.to_gathered_experiment_runs: every published table is
\* fetched and read back; errors is always None.
ToGatheredExperimentRuns(result) ==
    Gathered([dataframes |-> result.uris], NoFrame)

\* --------------------------------------------------------- a node's run
\* The run of scatter_gather on one payload (ScatterGatherInput) and where it
\* stands: UNSTARTED, EXECUTING_LEAVES | DISPATCHING_CHILDREN (awaiting
\* aio_run_many), MERGING (tables combined, not yet uploaded), PUBLISHED
\* (ScatterGatherResult returned) or FAILED (the run raised `exc`).
\* `branch` is the arm of `if payload.is_base_case` the run took, `dispatched`
\* the number of runs in its one aio_run_many call, `arrived` the completions
\* the engine has collected so far, in completion order.
NewNode(specs, factor, max_depth, save_errors) ==
    [specs |-> specs, factor |-> factor, max_depth |-> max_depth,
     save_errors |-> save_errors, state |-> "UNSTARTED", branch |-> "none",
     dispatched |-> 0, arrived |-> <<>>,
     merged |-> NoTables, uris |-> NoTables, exc |-> "none"]

Finished == {"PUBLISHED", "FAILED"}

\* ScatterGatherInput.add_root_workflow_run_id
AddRootWorkflowRunIdAtEveryNode(specs, path, root_workflow_run_id) ==
    [i \in 1..Len(specs) |->
        [specs[i] EXCEPT !.root_workflow_run_id = root_workflow_run_id]]

AddRootWorkflowRunId(specs, path, root_workflow_run_id) ==
    IF path = <<>>
    THEN [i \in 1..Len(specs) |->
            [specs[i] EXCEPT !.root_workflow_run_id = root_workflow_run_id]]
    ELSE specs

\* specs[branch_ix :: factor]
StrideTruncated(specs, branch_ix, factor) ==
    LET n == Len(specs)
        count == IF n > branch_ix THEN (n - branch_ix) \div factor ELSE 0
    IN  [k \in 1..count |-> specs[branch_ix + (k - 1) * factor + 1]]

StrideContiguous(specs, branch_ix, factor) ==
    LET n == Len(specs)
        size == (n + factor - 1) \div factor
        start == branch_ix * size
        count == IF n > start THEN (IF n - start < size THEN n - start ELSE size) ELSE 0
    IN  [k \in 1..count |-> specs[start + k]]

StrideSuffix(specs, branch_ix, factor) ==
    LET n == Len(specs)
        count == IF n > branch_ix THEN n - branch_ix ELSE 0
    IN  [k \in 1..count |-> specs[branch_ix + k]]

Stride(specs, branch_ix, factor) ==
    LET n == Len(specs)
        count == IF n > branch_ix THEN (n - branch_ix - 1) \div factor + 1 ELSE 0
    IN  [k \in 1..count |-> specs[branch_ix + (k - 1) * factor + 1]]

\* new_path: a copy of the node's path with RecursionSpec(factor, branch_ix) appended.
ChildPathOneBased(path, factor, branch_ix) ==
    Append(path, RecursionSpec(factor, branch_ix + 1))

ChildPath(path, factor, branch_ix) == Append(path, RecursionSpec(factor, branch_ix))

\* ScatterGatherInput.create_recursion_payloads: the children payloads, in
\* branch order; each child's specs are written to a blob of its own and the
\* child is built with the default save_errors.
CreateRecursionPayloadsNonEmpty(node, path) ==
    LET branches == IF Len(node.specs) < node.factor THEN Len(node.specs) ELSE node.factor
    IN  [b \in 1..branches |->
            [path |-> ChildPath(path, node.factor, b - 1),
             payload |-> NewNode(Stride(node.specs, b - 1, node.factor),
                                 node.factor, node.max_depth, FALSE)]]

CreateRecursionPayloadsInheritsSaveErrors(node, path) ==
    [b \in 1..node.factor |->
        [path |-> ChildPath(path, node.factor, b - 1),
         payload |-> NewNode(Stride(node.specs, b - 1, node.factor),
                             node.factor, node.max_depth, node.save_errors)]]

CreateRecursionPayloads(node, path) ==
    [b \in 1..node.factor |->
        [path |-> ChildPath(path, node.factor, b - 1),
         payload |-> NewNode(Stride(node.specs, b - 1, node.factor),
                             node.factor, node.max_depth, FALSE)]]

\* The list objects create_recursion_payloads works on, by identity: list 1 is
\* self.recursion_map.path (None is the empty list). Line 172 makes new_path
\* a copy of it, or a fresh empty list when it is None or empty.
NewPathAliased(lists) == [lists |-> lists, new_path |-> 1]

NewPath(lists) == [lists |-> Append(lists, lists[1]), new_path |-> Len(lists) + 1]

\* Iterations branch_ix..factor-1 of the loop (lines 171-180) on those lists:
\* new_path.append(...) changes the list object new_path names, and each
\* RecursionMap keeps the value new_path has when it is constructed.
RECURSIVE SplitLoop(_, _, _)
SplitLoop(lists, factor, branch_ix) ==
    IF branch_ix >= factor THEN [lists |-> lists, paths |-> <<>>]
    ELSE LET made == NewPath(lists)
             appended == [made.lists EXCEPT
                            ![made.new_path] = Append(@, RecursionSpec(factor, branch_ix))]
             rest == SplitLoop(appended, factor, branch_ix + 1)
         IN  [lists |-> rest.lists,
              paths |-> <<appended[made.new_path]>> \o rest.paths]

\* f"{branch_ix:06d}"
ZeroPad6(n) ==
    IF n < 10 THEN "00000" \o ToString(n)
    ELSE IF n < 100 THEN "0000" \o ToString(n)
    ELSE IF n < 1000 THEN "000" \o ToString(n)
    ELSE IF n < 10000 THEN "00" \o ToString(n)
    ELSE IF n < 100000 THEN "0" \o ToString(n)
    ELSE ToString(n)

\* filename = f"specs_{branch_ix:06d}.pq"
SpecsFilename(branch_ix) == "specs_" \o ZeroPad6(branch_ix) \o ".pq"

\* f"s3://{bucket}/{output_key}" (save_and_upload_parquets, line 81), as its
\* "/"-separated segments.
S3Uri(bucket, output_key) == <<"s3:", "", bucket>> \o output_key

\* uris[filename] of branch branch_ix: the blob its specs were uploaded to,
\* keyed under the parent's run id (lines 184-198).
ChildSpecsPathSameFile(bucket, bucket_prefix, experiment_id, path, branch_ix, parent_workflow_run_id) ==
    S3Uri(bucket, ConstructFilekey(bucket_prefix, experiment_id, path, SpecsFilename(0), "input", parent_workflow_run_id, "pq"))

ChildSpecsPath(bucket, bucket_prefix, experiment_id, path, branch_ix, parent_workflow_run_id) ==
    S3Uri(bucket, ConstructFilekey(bucket_prefix, experiment_id, path, SpecsFilename(branch_ix), "input", parent_workflow_run_id, "pq"))

\* A payload's own fields: what self holds once create_recursion_payloads has
\* returned, given what it held at the call.
SelfAfterCreateRecursionPayloads(self) ==
    [self EXCEPT !.path = SplitLoop(<<self.path>>, self.factor, 0).lists[1]]

\* The triggers create_recursion_payloads returns next to the payloads: one
\* bulk run item per child payload, tagged with its index and the node's level.
Triggers(children_payloads, path) ==
    [i \in 1..Len(children_payloads) |->
        [input |-> children_payloads[i],
         additional_metadata |-> [index |-> i - 1, level |-> Len(path)]]]

HasArrived(node, i) == \E k \in 1..Len(node.arrived) : node.arrived[k].index = i

ArrivedOk(node, i) ==
    \E k \in 1..Len(node.arrived) : node.arrived[k].index = i /\ node.arrived[k].ok

\* await aio_run_many(..., return_exceptions=True) returns once every run of
\* the batch has reported, whether with a value or with an exception.
AwaitDoneOnFirstException(node) ==
    \/ \A i \in 1..node.dispatched : HasArrived(node, i)
    \/ \E k \in 1..Len(node.arrived) : ~node.arrived[k].ok

AwaitDoneOnFirstArrival(node) == node.dispatched = 0 \/ node.arrived # <<>>

AwaitDoneNeverOnEmpty(node) ==
    /\ node.dispatched > 0
    /\ \A i \in 1..node.dispatched : HasArrived(node, i)

AwaitDone(node) == \A i \in 1..node.dispatched : HasArrived(node, i)

\* The list aio_run_many returns to a leaf: entry i is the outcome of the unit
\* dispatched for specs[i], whatever the order the units finished in.
LeafResultsInArrivalOrder(node) ==
    [k \in 1..Len(node.arrived) |->
        IF node.arrived[k].ok
        THEN Returned(UnitOutput(node.specs[node.arrived[k].index]))
        ELSE Raised(UnitErrorMsg(node.specs[node.arrived[k].index]))]

LeafResults(node) ==
    [i \in 1..Len(node.specs) |->
        IF ArrivedOk(node, i) THEN Returned(UnitOutput(node.specs[i]))
        ELSE Raised(UnitErrorMsg(node.specs[i]))]

\* The list aio_run_many returns to an internal node: entry i is child i's
\* ScatterGatherResult, or the exception the child run ended with.
ChildResults(node, path) ==
    [b \in 1..node.factor |->
        LET child == ChildPath(path, node.factor, b - 1)
        IN  IF ArrivedOk(node, b) THEN Returned([uris |-> nodes[child].uris])
            ELSE Raised(ChildErrorMsg(child))]

RECURSIVE ConcatErrors(_)
ConcatErrors(experiment_outputs) ==
    IF experiment_outputs = <<>> THEN <<>>
    ELSE (IF Head(experiment_outputs).errors.present
          THEN Head(experiment_outputs).errors.rows ELSE <<>>)
         \o ConcatErrors(Tail(experiment_outputs))

HasErrors(r) == r.errors.present

\* scatter_gather, lines 274-284: the tables of the node from its gathered
\* outputs, and the error frames concatenated under "errors".
MergeOutputs(experiment_outputs) ==
    LET dfs == [i \in 1..Len(experiment_outputs) |->
                    experiment_outputs[i].success.dataframes]
        errors == SelectSeq(experiment_outputs, HasErrors)
        transposed_dfs == TransposeDataframeDict(dfs)
        error_dfs == ConcatErrors(errors)
    IN  IF errors # <<>>
        THEN IF "errors" \in DOMAIN transposed_dfs
             THEN [transposed_dfs EXCEPT !["errors"] = @ \o error_dfs]
             ELSE transposed_dfs @@ ("errors" :> error_dfs)
        ELSE transposed_dfs

\* scatter_gather, lines 274-284, raises nothing: both pd.concat calls are on
\* non-empty lists and an existing "errors" table is extended.
MergeOutputsRaises(experiment_outputs) == FALSE

Values(safe_results) == [k \in 1..Len(safe_results) |-> safe_results[k].value]

\* The list the node's aio_run_many call returned.
Results(node, path) ==
    IF node.state = "EXECUTING_LEAVES" THEN LeafResults(node) ELSE ChildResults(node, path)

\* The spec_data the node passes to sift_results with that list: its specs at
\* a leaf (line 158), the children payloads otherwise (line 271).
SpecData(node, path) ==
    IF node.state = "EXECUTING_LEAVES" THEN node.specs
    ELSE LET payloads == CreateRecursionPayloads(node, path)
         IN  [b \in 1..Len(payloads) |-> PayloadDump(payloads[b].path, payloads[b].payload)]

\* A ScatterGatherInput instance as its run sees it: the blob its specs_path
\* names (the parsed list, or unreadable), the entry `specs` of its __dict__
\* and the number of times the getter of `specs` has run.
PayloadInstance(blob, readable) ==
    [blob |-> blob, readable |-> readable, cached |-> None, fetches |-> 0]

\* self.specs, a functools.cached_property: the getter (fetch_uri,
\* read_parquet, model_validate) runs when __dict__ has no entry, and its
\* value is stored there; a getter that raises stores nothing.
ReadSpecsUncached(self) ==
    [self |-> [self EXCEPT !.fetches = @ + 1],
     raised |-> ~self.readable,
     specs |-> IF self.readable THEN self.blob ELSE <<>>]

ReadSpecs(self) ==
    IF ~self.cached.is_none
    THEN [self |-> self, raised |-> FALSE, specs |-> self.cached.value]
    ELSE IF self.readable
    THEN [self |-> [self EXCEPT !.fetches = @ + 1, !.cached = Some(self.blob)],
          raised |-> FALSE, specs |-> self.blob]
    ELSE [self |-> [self EXCEPT !.fetches = @ + 1], raised |-> TRUE, specs |-> <<>>]

\* add_root_workflow_run_id on the instance: the loop assigns to the spec
\* objects of the list the read returned, which are the objects __dict__
\* holds when the read stored its list.
AddRootWorkflowRunIdOn(self, path, root_workflow_run_id) ==
    IF path # RootPath THEN [self |-> self, raised |-> FALSE, reads |-> <<>>]
    ELSE LET read == ReadSpecs(self)
             written == AddRootWorkflowRunId(read.specs, path, root_workflow_run_id)
         IN  [self |-> IF read.self.cached.is_none THEN read.self
                       ELSE [read.self EXCEPT !.cached = Some(written)],
              raised |-> read.raised,
              reads |-> IF read.raised THEN <<>> ELSE <<written>>]

\* The reads of self.specs in one run of scatter_gather up to its dispatch:
\* add_root_workflow_run_id (line 264), is_base_case (line 265), then
\* run_experiments (line 144) or create_recursion_payloads (line 169). `reads`
\* lists what each read saw, the last being what is dispatched or split.
ReadsOfRun(self, path, root_workflow_run_id) ==
    LET stamped == AddRootWorkflowRunIdOn(self, path, root_workflow_run_id)
        tested == ReadSpecs(stamped.self)
        used == ReadSpecs(tested.self)
    IN  IF stamped.raised
        THEN [self |-> stamped.self, raised |-> TRUE, reads |-> <<>>]
        ELSE IF tested.raised
        THEN [self |-> tested.self, raised |-> TRUE, reads |-> stamped.reads]
        ELSE [self |-> used.self, raised |-> used.raised,
              reads |-> stamped.reads \o <<tested.specs>>
                            \o (IF used.raised THEN <<>> ELSE <<used.specs>>)]

\* ScatterGatherInput.run_experiments up to its await (lines 145-157): one
\* bulk run item per spec, in enumeration order, its metadata {"index": i};
\* the items go to the engine in one aio_run_many call.
CreateBulkRunItemsSkipsFirst(specs) ==
    [k \in 1..(Len(specs) - 1) |->
        [input |-> specs[k + 1], additional_metadata |-> [index |-> k]]]

CreateBulkRunItems(specs) ==
    [k \in 1..Len(specs) |->
        [input |-> specs[k], additional_metadata |-> [index |-> k - 1]]]

\* The aio_run_many calls of run_experiments: the lists of items handed over.
RunManyCalls(specs) == <<CreateBulkRunItems(specs)>>

\* ScatterGatherInput.run_experiments after sift_results (lines 159-163).
RunExperiments(sifted) ==
    Gathered(CombineExperimentOutputs(Values(sifted.safe_results)), sifted.error_df)

\* experiment_outputs: the one output of run_experiments at a leaf (line 267);
\* at an internal node what the safe children published (line 272).
ExperimentOutputs(node, sifted) ==
    IF node.state = "EXECUTING_LEAVES" THEN <<RunExperiments(sifted)>>
    ELSE [k \in 1..Len(sifted.safe_results) |->
            ToGatheredExperimentRuns(sifted.safe_results[k].value)]

\* ---------------------------------------------------------- make_multiindex
\* instance_to_dump.model_dump(mode="json", exclude=...): the spec's fields
\* that enter the index, here those of a spec with one field `a` of its own.
DumpedIndex(sort_index) ==
    [experiment_id |-> "exp", sort_index |-> sort_index, workflow_run_id |-> NoRunId,
     root_workflow_run_id |-> NoRunId, a |-> 5]

\* additional_index_data: None, one dict, or a list of dicts.
NoIndexData == [kind |-> "none", dict |-> <<>>, list |-> <<>>]
DictIndexData(dict) == [kind |-> "dict", dict |-> dict, list |-> <<>>]
ListIndexData(list) == [kind |-> "list", dict |-> <<>>, list |-> list]

\* d.update(ad): ad's entries win.
Update(d, ad) == ad @@ d

\* The loop over zip(index_data, additional_index_data) from position k on
\* (lines 213-220). index_data is [dumped_index for _ in range(n_rows)]:
\* every position names the one dict `d`, so a row's check and update act
\* on what the rows before it left there.
RECURSIVE UpdateFromList(_, _, _)
UpdateFromList(d, list, k) ==
    IF k > Len(list) THEN [raised |-> "none", d |-> d]
    ELSE IF DOMAIN list[k] \cap DOMAIN d # {}
    THEN [raised |-> "ExperimentIndexAdditionalDataOverlapsWithSpecError", d |-> d]
    ELSE UpdateFromList(Update(d, list[k]), list, k + 1)

\* The frame make_multiindex builds from index_data (lines 228-232): n_rows
\* rows read from the one dict, and the column sort_subindex when asked for
\* and n_rows > 1.
IndexFrame(d, n_rows, include_sort_subindex) ==
    [i \in 1..n_rows |->
        IF include_sort_subindex /\ n_rows > 1
        THEN Update(d, [sort_subindex |-> i - 1])
        ELSE d]

\* ExperimentInputSpec.make_multiindex: the exception it raises, or the rows
\* of the MultiIndex.
MakeMultiindex(dumped_index, additional_index_data, n_rows, include_sort_subindex) ==
    IF additional_index_data.kind = "list" /\ n_rows # Len(additional_index_data.list)
    THEN [raised |-> "ExperimentIndexAdditionalDataDoesNotMatchNRowsError", rows |-> <<>>]
    ELSE IF additional_index_data.kind = "dict"
    THEN IF DOMAIN additional_index_data.dict \cap DOMAIN dumped_index # {}
         THEN [raised |-> "ExperimentIndexAdditionalDataOverlapsWithSpecError",
               rows |-> <<>>]
         ELSE [raised |-> "none",
               rows |-> IndexFrame(IF n_rows > 0
                                   THEN Update(dumped_index, additional_index_data.dict)
                                   ELSE dumped_index,
                                   n_rows, include_sort_subindex)]
    ELSE IF additional_index_data.kind = "list"
    THEN LET updated == UpdateFromList(dumped_index, additional_index_data.list, 1)
         IN  IF updated.raised # "none"
             THEN [raised |-> updated.raised, rows |-> <<>>]
             ELSE [raised |-> "none",
                   rows |-> IndexFrame(updated.d, n_rows, include_sort_subindex)]
    ELSE [raised |-> "none", rows |-> IndexFrame(dumped_index, n_rows, include_sort_subindex)]

\* ---------------------------------------------------------- fetch_uri
\* A local path: whether a file exists there and the content it holds.
NoFile == [exists |-> FALSE, content |-> 0]
File(content) == [exists |-> TRUE, content |-> content]

\* fetch_uri(uri, local_path, use_cache): what it raises, the file at
\* local_path afterwards and how many downloads or copies it made. `remote`
\* is the content the uri serves at the time of the call.
FetchUriIgnoresUseCache(scheme, has_path, has_host, remote, local, use_cache) ==
    LET fetched == [raised |-> "none", local |-> File(remote), downloads |-> 1]
        skipped == [raised |-> "none", local |-> local, downloads |-> 0]
    IN  IF local.exists THEN skipped ELSE fetched

FetchUri(scheme, has_path, has_host, remote, local, use_cache) ==
    LET raised(exc) == [raised |-> exc, local |-> local, downloads |-> 0]
        fetched == [raised |-> "none", local |-> File(remote), downloads |-> 1]
        skipped == [raised |-> "none", local |-> local, downloads |-> 0]
        fetch == ~local.exists \/ ~use_cache
    IN  IF scheme = "s3"
        THEN IF ~has_path THEN raised("ValueError")
             ELSE IF ~has_host THEN raised("ValueError")
             ELSE IF fetch THEN fetched ELSE skipped
        ELSE IF scheme \in {"http", "https"}
        THEN IF fetch THEN fetched ELSE skipped
        ELSE IF scheme = "file"
        THEN IF fetch
             THEN (IF has_path THEN fetched ELSE raised("ValueError"))
             ELSE skipped
        ELSE raised("NotImplementedError")

\* ---------------------------------------------------------- registry
\* ExperimentRegistry._experiments_dict at import time: no experiment.
NoExperiments == [name \in {} |-> 0]

\* ExperimentRegistry.Include: ExperimentTypeExists when the task's name is
\* registered already, else the task is stored under its name and returned.
IncludeOverwrites(dict, task) ==
    [raised |-> "none", ret |-> task,
     dict |-> [name \in DOMAIN dict \cup {task.name} |->
                  IF name = task.name THEN task ELSE dict[name]]]

Include(dict, task) ==
    IF task.name \in DOMAIN dict
    THEN [raised |-> "ExperimentTypeExists", ret |-> task, dict |-> dict]
    ELSE [raised |-> "none", ret |-> task, dict |-> dict @@ (task.name :> task)]

\* ExperimentRegistry.get_experiment: ExperimentTypeNotFound for a name that
\* is not registered, else the task stored under it.
GetExperiment(dict, name) ==
    IF name \notin DOMAIN dict
    THEN [raised |-> "ExperimentTypeNotFound", ret |-> [name |-> name, fn |-> 0]]
    ELSE [raised |-> "none", ret |-> dict[name]]

\* ---------------------------------------------------------- allocate
\* No call of allocate is under way.
NoAllocation == [pc |-> "none"]

\* A FileReference field of a spec: a local file, told by its directory and
\* its name, or a remote url.
LocalFile(dir, name) == [is_local |-> TRUE, dir |-> dir, name |-> name]
RemoteFile == [is_local |-> FALSE, dir |-> "", name |-> ""]

\* A spec object handed to allocate: whether it is an instance of the
\* experiment's input type, and the fields allocate reads or writes.
SpecObject(is_input, file) ==
    [is_input |-> is_input, experiment_id |-> "", sort_index |-> 0, file |-> file]

\* RecursionMap(path=None, factor=10, max_depth=0), the default of allocate.
DefaultRecursionMap == [path |-> None, factor |-> 10, max_depth |-> 0]

\* ExperimentRun.prefix as its "/"-separated segments (bucket prefix, base
\* id, version, timestamp) and ExperimentRun.experiment_id.
RunPrefix == <<"scythe", "exp", "v1.0.0", "2026-01-01_00-00-00">>
ExperimentId == "exp/v1.0.0/2026-01-01_00-00-00"

\* BaseExperiment.check_spec_types raises ExperimentSpecsMismatchError when
\* some spec is not an instance of the input validator. `specs` lists the
\* positions of the sequence by the object each holds.
CheckSpecTypesFirstOnly(objects, specs) ==
    Len(specs) > 0 /\ ~objects[specs[1]].is_input

CheckSpecTypesRaises(objects, specs) ==
    \E i \in 1..Len(specs) : ~objects[specs[i]].is_input

\* ExperimentRun.overwrite_spec_meta from position i on: each position's
\* object is assigned the experiment id and its position as sort_index.
RECURSIVE OverwriteSpecMetaFrom(_, _, _, _, _)
OverwriteSpecMetaFrom(objects, specs, i, overwrite_experiment_id, overwrite_sort_index) ==
    IF i > Len(specs) THEN objects
    ELSE LET named == IF overwrite_experiment_id
                      THEN [objects EXCEPT ![specs[i]].experiment_id = ExperimentId]
                      ELSE objects
             indexed == IF overwrite_sort_index
                        THEN [named EXCEPT ![specs[i]].sort_index = i - 1]
                        ELSE named
         IN  OverwriteSpecMetaFrom(indexed, specs, i + 1, overwrite_experiment_id,
                                   overwrite_sort_index)

OverwriteSpecMeta(objects, specs, overwrite_experiment_id, overwrite_sort_index) ==
    OverwriteSpecMetaFrom(objects, specs, 1, overwrite_experiment_id, overwrite_sort_index)

\* [s.model_dump(mode="json") for s in specs]: the rows of the specs blob.
SpecsDump(objects, specs) ==
    [i \in 1..Len(specs) |->
        InputSpec(objects[specs[i]].sort_index, NoRunId)]

\* spec._local_input_artifact_file_paths: the FileReference fields that hold
\* a local path, by field name.
LocalInputArtifactFilePaths(object) ==
    IF object.file.is_local THEN [field_name \in {"file"} |-> object.file]
    ELSE [field_name \in {} |-> RemoteFile]

\* input_artifacts: per field the set of local paths some spec uses for it.
InputArtifacts(objects, specs) ==
    LET used == {i \in 1..Len(specs) :
                    "file" \in DOMAIN LocalInputArtifactFilePaths(objects[specs[i]])}
    IN  [field_name \in {f \in {"file"} : used # {}} |->
            {LocalInputArtifactFilePaths(objects[specs[i]])[field_name] : i \in used}]

\* construct_artifact_key in allocate: ExperimentRun.construct_artifact_key
\* on the field name and pth.name, the directory being dropped.
ConstructArtifactKey(pth, field_name) ==
    RunPrefix \o <<"artifacts", field_name, pth.name>>

\* The collision loop of allocate raises DuplicateInputArtifactsError when
\* two paths of one field give the same key.
DuplicateInputArtifactsRaises(input_artifacts) ==
    \E field_name \in DOMAIN input_artifacts :
        \E p, q \in input_artifacts[field_name] :
            /\ p # q
            /\ ConstructArtifactKey(p, field_name) = ConstructArtifactKey(q, field_name)

\* ExperimentRun.construct_specs_filekey and the keys of the run's metadata.
ConstructSpecsFilekey(filename) == RunPrefix \o <<filename \o ".pq">>
IoSpecFilekey == RunPrefix \o <<"experiment_io_spec.yml">>
InputArtifactsFilekey == RunPrefix \o <<"input_artifacts.yml">>
ManifestFilekey == RunPrefix \o <<"manifest.yml">>

\* ScatterGatherInput(**kwargs) raises a ValidationError when a required
\* field (experiment_id, task_name, specs_path, recursion_map) is not given;
\* other keywords are kept as extras.
ScatterGatherInputRaises(kwargs) ==
    \E field \in {"experiment_id", "task_name", "specs_path", "recursion_map"} :
        field \notin DOMAIN kwargs

\* The effects of allocate, in order: uploads to the bucket and runs handed
\* to the task engine.
UploadEvent(keys, content) == [kind |-> "upload", keys |-> keys, content |-> content]
RunEvent(input, workflow_run_id) ==
    [kind |-> "run", input |-> input, workflow_run_id |-> workflow_run_id]

\* ---------------------------------------------------------- tree run
NoProbe == [op |-> "none"]

\* The root run is dispatched: the root batch's specs blob exists and the one
\* root payload is queued.
Init ==
    /\ \E n \in 0..MaxSpecs, factor \in 1..MaxFactor, max_depth \in 0..MaxDepth,
          save_errors \in BOOLEAN :
          nodes = (RootPath :> NewNode(RootSpecs(n), factor, max_depth, save_errors))
    /\ faults = 0
    /\ probe = NoProbe
    /\ experiments_dict = NoExperiments
    /\ allocation = NoAllocation

Fail(path, exc) ==
    nodes' = [nodes EXCEPT ![path].state = "FAILED", ![path].exc = exc]

\* scatter_gather up to its await: resolve the specs, stamp the root run id,
\* then either dispatch one unit per spec or split and dispatch the children.
Start(path) ==
    /\ nodes[path].state = "UNSTARTED"
    /\ \/ \* the blob store fails (fetch of the specs, upload of a child's specs)
          /\ faults < MaxFaults
          /\ faults' = faults + 1
          /\ Fail(path, "StorageError")
       \/ LET specs == AddRootWorkflowRunId(nodes[path].specs, path, RunIdOf(path))
              node == [nodes[path] EXCEPT !.specs = specs]
          IN  /\ IF IsBaseCase(Len(specs), node.factor, node.max_depth, path)
                 THEN nodes' = [nodes EXCEPT
                                  ![path] = [node EXCEPT !.state = "EXECUTING_LEAVES",
                                                        !.branch = "leaf",
                                                        !.dispatched =
                                                            Len(CreateBulkRunItems(specs))]]
                 ELSE LET payloads == CreateRecursionPayloads(node, path)
                          children == {payloads[b].path : b \in 1..Len(payloads)}
                      IN  nodes' =
                            [p \in DOMAIN nodes \cup children |->
                                IF p = path
                                THEN [node EXCEPT !.state = "DISPATCHING_CHILDREN",
                                                  !.branch = "recurse",
                                                  !.dispatched = Len(payloads)]
                                ELSE IF p \in children
                                THEN (CHOOSE c \in {payloads[b] : b \in 1..Len(payloads)} :
                                        c.path = p).payload
                                ELSE nodes[p]]
              /\ UNCHANGED faults
    /\ UNCHANGED <<probe, experiments_dict, allocation>>

\* The task engine: a dispatched leaf unit finishes, with its output or with
\* an exception, independently of its siblings.
UnitReturns(path, i, ok) ==
    /\ nodes[path].state = "EXECUTING_LEAVES"
    /\ i \in 1..Len(nodes[path].specs)
    /\ ~HasArrived(nodes[path], i)
    /\ nodes' = [nodes EXCEPT ![path].arrived = Append(@, [index |-> i, ok |-> ok])]
    /\ UNCHANGED <<faults, probe, experiments_dict, allocation>>

\* The task engine: a dispatched child run is over and reports to its parent.
ChildReturns(path, b) ==
    /\ nodes[path].state = "DISPATCHING_CHILDREN"
    /\ b \in 1..nodes[path].factor
    /\ ~HasArrived(nodes[path], b)
    /\ LET child == ChildPath(path, nodes[path].factor, b - 1)
       IN  /\ nodes[child].state \in Finished
           /\ nodes' = [nodes EXCEPT ![path].arrived =
                          Append(@, [index |-> b, ok |-> nodes[child].state = "PUBLISHED"])]
    /\ UNCHANGED <<faults, probe, experiments_dict, allocation>>

\* scatter_gather from the return of its await to the combined tables
\* (lines 266-284).
Merge(path) ==
    /\ nodes[path].state \in {"EXECUTING_LEAVES", "DISPATCHING_CHILDREN"}
    /\ AwaitDone(nodes[path])
    /\ \E results \in {Results(nodes[path], path)} :
       \E sifted \in {SiftResults(SpecData(nodes[path], path), results)} :
          IF sifted.raised
          THEN Fail(path, sifted.exc)
          ELSE \E experiment_outputs \in {ExperimentOutputs(nodes[path], sifted)} :
               \E transposed_dfs \in {MergeOutputs(experiment_outputs)} :
                  nodes' = [nodes EXCEPT ![path].state = "MERGING",
                                         ![path].merged = transposed_dfs]
    /\ UNCHANGED <<faults, probe, experiments_dict, allocation>>

\* scatter_gather, lines 285-299: upload the tables, return the result.
Publish(path) ==
    /\ nodes[path].state = "MERGING"
    /\ \/ /\ nodes' = [nodes EXCEPT
                         ![path].state = "PUBLISHED",
                         ![path].uris = SaveAndUploadParquets(nodes[path].merged,
                                                              nodes[path].save_errors)]
          /\ UNCHANGED faults
       \/ \* s3.upload_file raises
          /\ faults < MaxFaults
          /\ faults' = faults + 1
          /\ Fail(path, "StorageError")
    /\ UNCHANGED <<probe, experiments_dict, allocation>>

Next ==
    \/ \E path \in DOMAIN nodes : Start(path)
    \/ \E path \in DOMAIN nodes, i \in 1..MaxSpecs, ok \in BOOLEAN : UnitReturns(path, i, ok)
    \/ \E path \in DOMAIN nodes, b \in 1..MaxFactor : ChildReturns(path, b)
    \/ \E path \in DOMAIN nodes : Merge(path)
    \/ \E path \in DOMAIN nodes : Publish(path)

Spec == Init /\ [][Next]_vars

\* Every dispatched run and every blob operation eventually returns.
FairSpec == Spec /\ WF_vars(Next)

\* ------------------------------------------------------ blobs of a tree run
\* ctx.workflow_run_id of the run at a path, as the string the keys carry.
RunName(path) == "wr" \o ToString(RunIdOf(path))

\* The blobs a run that has split wrote: one specs table per branch, keyed
\* under its own run id (create_recursion_payloads, lines 186-198).
InputUploads(path) ==
    IF nodes[path].branch # "recurse" THEN {}
    ELSE {[writer |-> path, item |-> SpecsFilename(branch_ix),
           uri |-> ChildSpecsPath("b", "scythe", ExperimentId, path, branch_ix,
                                  RunName(path))] :
             branch_ix \in 0..(nodes[path].factor - 1)}

\* The blobs a run that has published wrote: one per table it kept
\* (scatter_gather, lines 285-297).
OutputUploads(path) ==
    IF nodes[path].state # "PUBLISHED" THEN {}
    ELSE {[writer |-> path, item |-> name,
           uri |-> S3Uri("b", ConstructFilekey("scythe", ExperimentId, path, name,
                                               "output", RunName(path), "pq"))] :
             name \in DOMAIN nodes[path].uris}

Uploads == UNION {InputUploads(path) \cup OutputUploads(path) : path \in DOMAIN nodes}

\* ------------------------------------------------------ pure functions
\* ProbeSpec applies one pure function to inputs drawn from bounded sets and
\* records the call in `probe`; the tree variables stay put.
ProbeInit ==
    /\ nodes = (RootPath :> NewNode(<<>>, 1, 0, FALSE))
    /\ faults = 0
    /\ probe = NoProbe
    /\ experiments_dict = NoExperiments
    /\ allocation = NoAllocation

\* A path of the given depth: every coordinate (factor, offset).
ConstPath(factor, depth, offset) == [k \in 1..depth |-> RecursionSpec(factor, offset)]

ProbeIsBaseCase ==
    /\ probe = NoProbe
    /\ \E n_specs \in 0..(MaxSpecs + 1), factor \in 1..(MaxFactor + 1),
          max_depth \in 0..MaxDepthLimit, depth \in 0..(MaxDepthLimit + 1) :
          \E offset \in 0..(factor - 1) :
             LET path == ConstPath(factor, depth, offset)
             IN  probe' = [op |-> "is_base_case", n_specs |-> n_specs,
                           factor |-> factor, max_depth |-> max_depth, path |-> path,
                           ret |-> IsBaseCase(n_specs, factor, max_depth, path)]
    /\ UNCHANGED <<nodes, faults, experiments_dict, allocation>>

ProbeSiftResults ==
    /\ probe = NoProbe
    /\ \E n \in 0..MaxSpecs :
          \E oks \in [1..n -> BOOLEAN] :
             LET spec_data == RootSpecs(n)
                 results == [i \in 1..n |->
                                IF oks[i] THEN Returned(UnitOutput(spec_data[i]))
                                ELSE Raised(UnitErrorMsg(spec_data[i]))]
             IN  probe' = [op |-> "sift_results", spec_data |-> spec_data,
                           results |-> results, ret |-> SiftResults(spec_data, results)]
    /\ UNCHANGED <<nodes, faults, experiments_dict, allocation>>

\* Batches of n specs whose sort_index values may repeat.
ProbeBatches(n) == [1..n -> {InputSpec(k, 1) : k \in 0..(MaxSpecs - 1)}]

ProbeCreateRecursionPayloads ==
    /\ probe = NoProbe
    /\ \E n \in 0..MaxSpecs, factor \in 1..(MaxFactor + 1), depth \in 0..1 :
          \E specs \in ProbeBatches(n), offset \in 0..(factor - 1) :
             LET path == ConstPath(factor, depth, offset)
                 node == NewNode(specs, factor, MaxDepthLimit, FALSE)
                 children_payloads == CreateRecursionPayloads(node, path)
                 self == [path |-> path, factor |-> factor,
                          max_depth |-> MaxDepthLimit, specs |-> specs,
                          specs_path |-> S3Uri("b", <<"k">>)]
             IN  probe' = [op |-> "create_recursion_payloads", specs |-> specs,
                           factor |-> factor, path |-> path,
                           children_payloads |-> children_payloads,
                           triggers |-> Triggers(children_payloads, path),
                           self_before |-> self,
                           self_after |-> SelfAfterCreateRecursionPayloads(self),
                           new_paths |-> SplitLoop(<<path>>, factor, 0).paths,
                           specs_paths |->
                               [b \in 1..factor |->
                                   ChildSpecsPath("b", "scythe", "exp", path, b - 1,
                                                  "wr1")]]
    /\ UNCHANGED <<nodes, faults, experiments_dict, allocation>>

\* RecursionSpec(factor=factor, offset=offset), from values inside and outside
\* the accepted ranges.
ProbeRecursionSpec ==
    /\ probe = NoProbe
    /\ \E factor \in 0..(MaxFactor + 1) :
          \E offset \in {None} \cup {Some(v) : v \in (0 - 1)..(MaxFactor + 2)} :
             probe' = [op |-> "RecursionSpec", factor |-> factor, offset |-> offset,
                       raised |-> RecursionSpecRaises(factor, offset)]
    /\ UNCHANGED <<nodes, faults, experiments_dict, allocation>>

\* The paths handed to RecursionMap: none, an empty list, lists of valid
\* coordinates.
ProbePaths ==
    {None, Some(<<>>)}
        \cup {Some(ConstPath(f, depth, o)) :
                  f \in 1..MaxFactor, depth \in 1..MaxDepth, o \in 0..(MaxFactor - 1)}

\* RecursionMap(path=path, factor=factor, max_depth=max_depth), and is_root of
\* the map when it was built.
ProbeRecursionMap ==
    /\ probe = NoProbe
    /\ \E path \in ProbePaths, factor \in 0..MaxFactor,
          max_depth \in (0 - 1)..(MaxDepthLimit + 1) :
             probe' = [op |-> "RecursionMap", path |-> path, factor |-> factor,
                       max_depth |-> max_depth,
                       raised |-> RecursionMapRaises(path, factor, max_depth),
                       is_root |-> IsRoot(path)]
    /\ UNCHANGED <<nodes, faults, experiments_dict, allocation>>

\* The tables of the combine probes: rows are labelled 0 and 1.
ProbeTables == {<<>>, <<0>>, <<1>>, <<0, 1>>}

\* Experiment outputs holding any of the tables `results` and `scalars`.
ProbeOutputs ==
    {[dataframes |-> dfs] :
        dfs \in UNION {[names -> ProbeTables] : names \in SUBSET {"results", "scalars"}}}

\* combine_experiment_outputs on a list of outputs, and on the same list
\* regrouped: all but the last combined first, then combined with the last.
ProbeCombineExperimentOutputs ==
    /\ probe = NoProbe
    /\ \E n \in 0..MaxOutputs :
          \E experiment_outputs \in [1..n -> ProbeOutputs] :
             LET front == SubSeq(experiment_outputs, 1, n - 1)
                 regrouped ==
                     IF n = 0 THEN CombineExperimentOutputs(<<>>)
                     ELSE CombineExperimentOutputs(
                              <<CombineExperimentOutputs(front), experiment_outputs[n]>>)
             IN  probe' = [op |-> "combine_experiment_outputs",
                           experiment_outputs |-> experiment_outputs,
                           ret |-> CombineExperimentOutputs(experiment_outputs),
                           regrouped |-> regrouped]
    /\ UNCHANGED <<nodes, faults, experiments_dict, allocation>>

\* _add_scalars on an output with or without scalar fields whose tables may
\* already hold one called `scalars`.
ProbeAddScalars ==
    /\ probe = NoProbe
    /\ \E output \in ProbeOutputs, has_scalar_fields \in BOOLEAN :
          probe' = [op |-> "_add_scalars", dataframes |-> output.dataframes,
                    has_scalar_fields |-> has_scalar_fields,
                    ret |-> AddScalars(output.dataframes, has_scalar_fields,
                                       InputSpec(0, 1))]
    /\ UNCHANGED <<nodes, faults, experiments_dict, allocation>>

\* What run_experiments can hand to the merge of a leaf: result tables, one of
\* which may be called `errors`, and the error frame of sift_results.
ProbeGathered ==
    {Gathered([dataframes |-> dfs], errors) :
        dfs \in UNION {[names -> ProbeTables] : names \in SUBSET {"results", "errors"}},
        errors \in {NoFrame, Frame(<<0>>), Frame(<<0, 1>>)}}

\* The merge of scatter_gather (lines 274-284) on one gathered output.
ProbeMergeOutputs ==
    /\ probe = NoProbe
    /\ \E gathered \in ProbeGathered :
          probe' = [op |-> "merge_outputs", experiment_outputs |-> <<gathered>>,
                    raised |-> MergeOutputsRaises(<<gathered>>),
                    ret |-> MergeOutputs(<<gathered>>)]
    /\ UNCHANGED <<nodes, faults, experiments_dict, allocation>>

\* save_and_upload_parquets on tables of any of these names, with and
\* without save_errors.
ProbeTableNames == {"results", "scalars", "errors", "Errors", "terror"}

ProbeSaveAndUploadParquets ==
    /\ probe = NoProbe
    /\ \E names \in SUBSET ProbeTableNames, save_errors \in BOOLEAN :
          \E collected_dfs \in [names -> {<<>>, <<0, 1>>}] :
             probe' = [op |-> "save_and_upload_parquets",
                       collected_dfs |-> collected_dfs, save_errors |-> save_errors,
                       ret |-> SaveAndUploadParquets(collected_dfs, save_errors)]
    /\ UNCHANGED <<nodes, faults, experiments_dict, allocation>>

\* construct_filekey of a node at any depth, for both modes.
ProbeConstructFilekey ==
    /\ probe = NoProbe
    /\ \E experiment_id \in {"exp", "exp2"}, mode \in {"input", "output"},
          depth \in 0..MaxDepth, workflow_run_id \in {"wr1", "wr2"},
          filename \in {"scalars", "specs_000000.pq"} :
             LET path == ConstPath(MaxFactor, depth, 0)
             IN  probe' = [op |-> "construct_filekey", bucket_prefix |-> "scythe",
                           experiment_id |-> experiment_id, path |-> path,
                           filename |-> filename, mode |-> mode,
                           workflow_run_id |-> workflow_run_id, suffix |-> "pq",
                           ret |-> ConstructFilekey("scythe", experiment_id, path,
                                                    filename, mode, workflow_run_id,
                                                    "pq")]
    /\ UNCHANGED <<nodes, faults, experiments_dict, allocation>>

\* fetch_uri on uris of every scheme, with the local file missing, up to date
\* or stale.
ProbeFetchUri ==
    /\ probe = NoProbe
    /\ \E scheme \in {"s3", "http", "https", "file", "ftp"},
          has_path \in BOOLEAN, has_host \in BOOLEAN, use_cache \in BOOLEAN,
          remote \in 1..2, local \in {NoFile, File(1), File(2)} :
             probe' = [op |-> "fetch_uri", scheme |-> scheme, has_path |-> has_path,
                       has_host |-> has_host, remote |-> remote, local |-> local,
                       use_cache |-> use_cache,
                       ret |-> FetchUri(scheme, has_path, has_host, remote, local,
                                        use_cache)]
    /\ UNCHANGED <<nodes, faults, experiments_dict, allocation>>

\* run_experiments on batches whose specs may repeat.
ProbeRunExperiments ==
    /\ probe = NoProbe
    /\ \E n \in 0..MaxSpecs :
          \E specs \in ProbeBatches(n) :
             probe' = [op |-> "run_experiments", specs |-> specs,
                       calls |-> RunManyCalls(specs)]
    /\ UNCHANGED <<nodes, faults, experiments_dict, allocation>>

\* One run of scatter_gather up to its dispatch, at the root and one level
\* down, on a specs blob that can or cannot be read.
ProbeReadsOfRun ==
    /\ probe = NoProbe
    /\ \E n \in 0..MaxSpecs, depth \in 0..1, readable \in BOOLEAN :
          \E blob \in [1..n -> {InputSpec(k, NoRunId) : k \in 0..(MaxSpecs - 1)}] :
             LET path == ConstPath(MaxFactor, depth, 0)
             IN  probe' = [op |-> "specs", blob |-> blob, readable |-> readable,
                           path |-> path,
                           ret |-> ReadsOfRun(PayloadInstance(blob, readable), path,
                                              RunIdOf(path))]
    /\ UNCHANGED <<nodes, faults, experiments_dict, allocation>>

\* Index dicts over a field of the spec (`a`) and a foreign key (`x`).
ProbeIndexDicts ==
    UNION {[keys -> 1..2] : keys \in SUBSET {"a", "x"}}

\* make_multiindex with no additional data, one dict, or a list of up to
\* MaxRows + 1 dicts, for 1..MaxRows rows.
ProbeMakeMultiindex ==
    /\ probe = NoProbe
    /\ \E n_rows \in 1..MaxRows, include_sort_subindex \in BOOLEAN, len \in 0..(MaxRows + 1) :
          \E additional_index_data \in
                {NoIndexData} \cup {DictIndexData(d) : d \in ProbeIndexDicts}
                    \cup {ListIndexData(l) : l \in [1..len -> ProbeIndexDicts]} :
             probe' = [op |-> "make_multiindex", dumped_index |-> DumpedIndex(1),
                       additional_index_data |-> additional_index_data,
                       n_rows |-> n_rows,
                       include_sort_subindex |-> include_sort_subindex,
                       ret |-> MakeMultiindex(DumpedIndex(1), additional_index_data,
                                              n_rows, include_sort_subindex)]
    /\ UNCHANGED <<nodes, faults, experiments_dict, allocation>>

ProbeNext ==
    \/ ProbeCombineExperimentOutputs
    \/ ProbeMakeMultiindex
    \/ ProbeReadsOfRun
    \/ ProbeRunExperiments
    \/ ProbeFetchUri
    \/ ProbeConstructFilekey
    \/ ProbeSaveAndUploadParquets
    \/ ProbeAddScalars
    \/ ProbeMergeOutputs
    \/ ProbeIsBaseCase
    \/ ProbeSiftResults
    \/ ProbeCreateRecursionPayloads
    \/ ProbeRecursionSpec
    \/ ProbeRecursionMap

ProbeSpec == ProbeInit /\ [][ProbeNext]_vars

\* ------------------------------------------------------------ registry
\* RegistrySpec: any sequence of Include and get_experiment calls on the
\* process-wide registry, starting empty. Tasks are told apart by `fn`.
TaskNames == {"foo", "bar", "baz"}
Tasks == {[name |-> name, fn |-> fn] : name \in TaskNames, fn \in 1..MaxTasks}

CallInclude ==
    /\ \E task \in Tasks :
          \E result \in {Include(experiments_dict, task)} :
             /\ experiments_dict' = result.dict
             /\ probe' = [op |-> "Include", name |-> task.name, task |-> task,
                          raised |-> result.raised, ret |-> result.ret]
    /\ UNCHANGED <<nodes, faults, allocation>>

CallGetExperiment ==
    /\ \E name \in TaskNames :
          \E result \in {GetExperiment(experiments_dict, name)} :
             probe' = [op |-> "get_experiment", name |-> name, task |-> result.ret,
                       raised |-> result.raised, ret |-> result.ret]
    /\ UNCHANGED <<nodes, faults, experiments_dict, allocation>>

RegistryNext ==
    \/ CallInclude
    \/ CallGetExperiment

RegistrySpec == ProbeInit /\ [][RegistryNext]_vars

\* ------------------------------------------------------------ allocate
\* AllocateSpec: one call of BaseExperiment.allocate on every sequence of up
\* to MaxAllocSpecs specs: a position may hold an object another position
\* holds too, an object may be of a foreign type, and its file field a local
\* file or a remote url.
AllocateFiles == {RemoteFile, LocalFile("a", "f.txt"), LocalFile("b", "f.txt")}

AllocateInit ==
    /\ nodes = (RootPath :> NewNode(<<>>, 1, 0, FALSE))
    /\ faults = 0
    /\ probe = NoProbe
    /\ experiments_dict = NoExperiments
    /\ \E n \in 0..MaxAllocSpecs, overwrite_sort_index \in BOOLEAN,
          recursion_map \in {None, Some([path |-> None, factor |-> 2, max_depth |-> 1])} :
          \E specs \in [1..n -> 1..n],
             objects \in [1..n -> {SpecObject(is_input, file) :
                                      is_input \in BOOLEAN, file \in AllocateFiles}] :
             allocation = [pc |-> "validate", given |-> objects, objects |-> objects,
                           specs |-> specs,
                           overwrite_sort_index |-> overwrite_sort_index,
                           recursion_map |-> recursion_map,
                           input_artifacts |-> InputArtifacts(objects, <<>>),
                           specs_uri |-> <<>>, events |-> <<>>, exc |-> "none"]

AllocateRaise(exc) == [allocation EXCEPT !.pc = "raised", !.exc = exc]

\* allocate, lines 257-311: the type check, the run's identity written onto
\* the specs, the local artifacts collected and checked for colliding keys.
AllocateValidate ==
    /\ allocation.pc = "validate"
    /\ IF CheckSpecTypesRaises(allocation.objects, allocation.specs)
       THEN allocation' = AllocateRaise("ExperimentSpecsMismatchError")
       ELSE \E objects \in {OverwriteSpecMeta(allocation.objects, allocation.specs, TRUE,
                                              allocation.overwrite_sort_index)} :
            \E input_artifacts \in {InputArtifacts(objects, allocation.specs)} :
               IF DuplicateInputArtifactsRaises(input_artifacts)
               THEN allocation' = [AllocateRaise("DuplicateInputArtifactsError")
                                      EXCEPT !.objects = objects]
               ELSE allocation' = [allocation EXCEPT !.pc = "upload_artifacts",
                                                     !.objects = objects,
                                                     !.input_artifacts = input_artifacts]
    /\ UNCHANGED <<nodes, faults, probe, experiments_dict>>

\* allocate, lines 313-328: the local artifacts go to the bucket and the
\* specs' file fields become the urls; nothing happens without artifacts.
AllocateUploadArtifacts ==
    /\ allocation.pc = "upload_artifacts"
    /\ \/ allocation' =
            [allocation EXCEPT
                !.pc = "upload_specs",
                !.events = IF DOMAIN allocation.input_artifacts = {} THEN @
                           ELSE Append(@, UploadEvent(
                                   UNION {{ConstructArtifactKey(pth, field_name) :
                                              pth \in allocation.input_artifacts[field_name]} :
                                          field_name \in DOMAIN allocation.input_artifacts},
                                   "artifacts")),
                !.objects = [o \in DOMAIN allocation.objects |->
                                IF \E i \in 1..Len(allocation.specs) : allocation.specs[i] = o
                                THEN [allocation.objects[o] EXCEPT !.file = RemoteFile]
                                ELSE allocation.objects[o]]]
       \/ \* s3_client.upload_file raises
          /\ DOMAIN allocation.input_artifacts # {}
          /\ allocation' = AllocateRaise("StorageError")
    /\ UNCHANGED <<nodes, faults, probe, experiments_dict>>

\* allocate, lines 330-341: the specs are dumped to one table and uploaded.
AllocateUploadSpecs ==
    /\ allocation.pc = "upload_specs"
    /\ \/ allocation' =
            [allocation EXCEPT
                !.pc = "dispatch",
                !.events = Append(@, UploadEvent({ConstructSpecsFilekey("specs")},
                                                 SpecsDump(allocation.objects,
                                                           allocation.specs))),
                !.specs_uri = S3Uri("b", ConstructSpecsFilekey("specs"))]
       \/ allocation' = AllocateRaise("StorageError")
    /\ UNCHANGED <<nodes, faults, probe, experiments_dict>>

\* allocate, lines 343-429: the root payload is built and handed to the task
\* engine, then the io spec, the artifact record and the manifest are
\* uploaded.
AllocateDispatch ==
    /\ allocation.pc = "dispatch"
    /\ LET kwargs == [experiment_id |-> ExperimentId, task_name |-> "task",
                      specs_uri |-> allocation.specs_uri,
                      recursion_map |-> IF allocation.recursion_map.is_none
                                        THEN DefaultRecursionMap
                                        ELSE allocation.recursion_map.value,
                      storage_settings |-> "b"]
       IN  IF ScatterGatherInputRaises(kwargs)
           THEN allocation' = AllocateRaise("ValidationError")
           ELSE allocation' =
                  [allocation EXCEPT
                      !.pc = "done",
                      !.events = @ \o <<RunEvent(kwargs, "wr-root"),
                                        UploadEvent({IoSpecFilekey}, "schema")>>
                                   \o (IF DOMAIN allocation.input_artifacts = {} THEN <<>>
                                       ELSE <<UploadEvent({InputArtifactsFilekey}, "urls")>>)
                                   \o <<UploadEvent({ManifestFilekey}, "wr-root")>>]
    /\ UNCHANGED <<nodes, faults, probe, experiments_dict>>

AllocateNext ==
    \/ AllocateValidate
    \/ AllocateUploadArtifacts
    \/ AllocateUploadSpecs
    \/ AllocateDispatch

AllocateSpec == AllocateInit /\ [][AllocateNext]_vars

\* ================================================================ claims

\* C1: is_base_case of a batch is true if and only if len(specs) <= factor, or
\* the address depth >= max_depth, or max_depth == 0, for every spec count,
\* factor, max_depth in 0..10 and address depth, the root (no path) included.
C1_IsBaseCaseContract ==
    probe.op = "is_base_case" =>
        (probe.ret <=> \/ probe.n_specs <= probe.factor
                       \/ Len(probe.path) >= probe.max_depth
                       \/ probe.max_depth = 0)

\* C1 witness: the root with max_depth 0 and more specs than the factor is a leaf.
C1_Witness ==
    /\ probe.op = "is_base_case"
    /\ probe.path = <<>>
    /\ probe.max_depth = 0
    /\ probe.n_specs > probe.factor
    /\ probe.ret

\* C8 (as claimed): sift_results returns one error row per failed spec for any
\* number of failures, keyed by the spec at the exception's position and
\* carrying its message; no error table when nothing failed; the successes in
\* their relative order.
C8_SiftContract ==
    probe.op = "sift_results" =>
        LET positions == ErrorPositions(probe.results, 1)
            error_df == probe.ret.error_df
        IN  /\ ~probe.ret.raised
            /\ probe.ret.safe_results = SelectSeq(probe.results, IsSafe)
            /\ error_df.present <=> positions # <<>>
            /\ Len(error_df.rows) = Len(positions)
            /\ \A k \in 1..Len(error_df.rows) :
                  /\ error_df.rows[k].key = probe.spec_data[positions[k]]
                  /\ error_df.rows[k].msg = probe.results[positions[k]].msg

\* ------------------------------------------------- claims on the tree run
Root == nodes[RootPath]

Rows(tables, name) == IF name \in DOMAIN tables THEN tables[name] ELSE <<>>

Child(path, b) == ChildPath(path, nodes[path].factor, b - 1)

PastAwait(node) ==
    node.state \in {"MERGING", "PUBLISHED"} \/ node.exc \in {"TypeError", "ValueError"}

AllFinished == \A path \in DOMAIN nodes : nodes[path].state \in Finished

\* C2: for every factor >= 1, max_depth and root spec count a tree run started
\* at the root terminates: from some point on no run is dispatched any more and
\* every node dispatched is finished, PUBLISHED or FAILED, given that every
\* dispatched run and every blob operation eventually returns.
C2_TreeRunTerminates == <>[]AllFinished

\* C2 witness: a tree of depth 2 whose every node is finished, the root published.
C2_Witness ==
    /\ AllFinished
    /\ Root.state = "PUBLISHED"
    /\ \E path \in DOMAIN nodes : Len(path) = 2

\* C3 (as claimed): whenever the root is PUBLISHED every spec of the root batch
\* is represented in the root's merged output, by a success row or by an
\* error-table row.
C3_NoSilentDrop ==
    Root.state = "PUBLISHED" =>
        \A i \in 1..Len(Root.specs) :
            \E name \in DOMAIN Root.merged :
                \E k \in 1..Len(Root.merged[name]) :
                    Root.merged[name][k].key.sort_index = Root.specs[i].sort_index

RECURSIVE ChildrenErrorRows(_, _)
ChildrenErrorRows(path, b) ==
    IF b > nodes[path].factor THEN <<>>
    ELSE Rows(nodes[Child(path, b)].merged, "errors") \o ChildrenErrorRows(path, b + 1)

\* C4 (as claimed): the error table of an internal node is the concatenation
\* of its children's error tables, so the root's error table holds a row for
\* every descendant spec whose unit failed (stated for published children and
\* leaves, so that no failed run is involved).
C4_ErrorTablesConcatenated ==
    \A path \in DOMAIN nodes :
        (/\ nodes[path].branch = "recurse"
         /\ nodes[path].state \in {"MERGING", "PUBLISHED"}
         /\ \A b \in 1..nodes[path].factor : nodes[Child(path, b)].state = "PUBLISHED") =>
            /\ Rows(nodes[path].merged, "errors") = ChildrenErrorRows(path, 1)
            /\ \A leaf \in DOMAIN nodes :
                  (/\ nodes[leaf].state = "PUBLISHED"
                   /\ nodes[leaf].branch = "leaf"
                   /\ Len(leaf) > Len(path)
                   /\ SubSeq(leaf, 1, Len(path)) = path) =>
                     \A k \in 1..Len(nodes[leaf].arrived) :
                        ~nodes[leaf].arrived[k].ok =>
                           \E r \in 1..Len(Rows(nodes[path].merged, "errors")) :
                              nodes[path].merged["errors"][r].key.sort_index =
                                 nodes[leaf].specs[nodes[leaf].arrived[k].index].sort_index

C6_CapturedFailuresNotFatal ==
    \A path \in DOMAIN nodes :
        (/\ nodes[path].branch = "leaf"
         /\ \E k \in 1..Len(nodes[path].arrived) : ~nodes[path].arrived[k].ok
         /\ nodes[path].state = "FAILED") =>
            nodes[path].exc = "StorageError"

\* C7 (as claimed): at a leaf every spec produces exactly one result: once the
\* await has returned, successes plus error rows number the specs of the batch.
C7_OneResultPerSpec ==
    \A path \in DOMAIN nodes :
        (/\ nodes[path].branch = "leaf"
         /\ nodes[path].state \notin {"EXECUTING_LEAVES"}) =>
            Len(Rows(nodes[path].merged, "scalars")) + Len(Rows(nodes[path].merged, "errors"))
                = Len(nodes[path].specs)

\* C9: both awaits gather all completions: a node is past its await (merging,
\* published, or failed inside the merge) only when every run it dispatched
\* has reported, failed siblings notwithstanding, and every child is finished.
C9_GatherAll ==
    \A path \in DOMAIN nodes :
        PastAwait(nodes[path]) =>
            /\ \A i \in 1..nodes[path].dispatched : HasArrived(nodes[path], i)
            /\ Len(nodes[path].arrived) = nodes[path].dispatched
            /\ nodes[path].branch = "recurse" =>
                  \A b \in 1..nodes[path].factor : nodes[Child(path, b)].state \in Finished

\* C9 witness: a node merges after a run that reported an exception first and
\* a sibling that reported after it.
C9_Witness ==
    \E path \in DOMAIN nodes :
        /\ nodes[path].state = "MERGING"
        /\ Len(nodes[path].arrived) >= 2
        /\ ~nodes[path].arrived[1].ok
        /\ nodes[path].arrived[2].ok

\* Position of a row's spec in the enumeration of the node: the index of the
\* spec in the leaf's batch, the branch of the child holding it otherwise.
EnumPos(path, row) ==
    IF nodes[path].branch = "leaf"
    THEN CHOOSE i \in 1..Len(nodes[path].specs) :
            nodes[path].specs[i].sort_index = row.key.sort_index
    ELSE CHOOSE b \in 1..nodes[path].factor :
            \E i \in 1..Len(nodes[Child(path, b)].specs) :
                nodes[Child(path, b)].specs[i].sort_index = row.key.sort_index

\* Position of a row in the table of that name the child published.
PosInChild(path, b, name, row) ==
    CHOOSE k \in 1..Len(nodes[Child(path, b)].uris[name]) :
        nodes[Child(path, b)].uris[name][k] = row

\* C10: within one node the rows of every merged table are in the order the
\* leaf units or children were enumerated, whatever the completion order: at a
\* leaf the successes and the failures each in batch order, one row per unit;
\* at an internal node child by child, each child's rows as it published them.
C10_EnumerationOrder ==
    \A path \in DOMAIN nodes :
        nodes[path].state \in {"MERGING", "PUBLISHED"} =>
            /\ \A name \in DOMAIN nodes[path].merged :
                  LET rows == nodes[path].merged[name]
                  IN  \A i, j \in 1..Len(rows) :
                         i < j =>
                            \/ EnumPos(path, rows[i]) < EnumPos(path, rows[j])
                            \/ /\ nodes[path].branch = "recurse"
                               /\ EnumPos(path, rows[i]) = EnumPos(path, rows[j])
                               /\ PosInChild(path, EnumPos(path, rows[i]), name, rows[i])
                                    < PosInChild(path, EnumPos(path, rows[j]), name, rows[j])
            /\ nodes[path].branch = "leaf" =>
                  /\ {r.key : r \in {Rows(nodes[path].merged, "scalars")[k] :
                                        k \in 1..Len(Rows(nodes[path].merged, "scalars"))}}
                        = {nodes[path].specs[i] :
                              i \in {i \in 1..Len(nodes[path].specs) : ArrivedOk(nodes[path], i)}}
                  /\ {r.key : r \in {Rows(nodes[path].merged, "errors")[k] :
                                        k \in 1..Len(Rows(nodes[path].merged, "errors"))}}
                        = {nodes[path].specs[i] :
                              i \in {i \in 1..Len(nodes[path].specs) : ~ArrivedOk(nodes[path], i)}}

\* C10 witness: two units completed in the reverse of their enumeration order
\* and both their rows are merged.
C10_Witness ==
    \E path \in DOMAIN nodes :
        /\ nodes[path].state = "MERGING"
        /\ nodes[path].branch = "leaf"
        /\ Len(nodes[path].arrived) = 2
        /\ nodes[path].arrived[1].index = 2
        /\ nodes[path].arrived[1].ok /\ nodes[path].arrived[2].ok
        /\ Len(Rows(nodes[path].merged, "scalars")) = 2

\* ------------------------------------------------------------ partitioning
CountIn(seq, x) == Cardinality({k \in 1..Len(seq) : seq[k] = x})

RECURSIVE CountInChildren(_, _, _)
CountInChildren(children_payloads, b, x) ==
    IF b > Len(children_payloads) THEN 0
    ELSE CountIn(children_payloads[b].payload.specs, x)
         + CountInChildren(children_payloads, b + 1, x)

AllSpecValues == {InputSpec(k, r) : k \in 0..MaxSpecs, r \in 0..1}

\* C11: the round-robin split is a partition: for every spec count n >= 0 and
\* factor f >= 1, every spec occurs in the children's spec lists taken together
\* exactly as many times as in the parent's list; none is lost, none duplicated.
C11_SplitIsPartition ==
    probe.op = "create_recursion_payloads" =>
        \A x \in AllSpecValues :
            CountInChildren(probe.children_payloads, 1, x) = CountIn(probe.specs, x)

\* C11 witness: a batch holding one spec twice is split over two children
\* with a spec left for an uneven last round.
C11_Witness ==
    /\ probe.op = "create_recursion_payloads"
    /\ probe.factor = 2
    /\ Len(probe.specs) = 3
    /\ probe.specs[1] = probe.specs[3]
    /\ probe.specs[1] # probe.specs[2]

\* C12: child i (0 <= i < f) receives exactly the specs at parent positions
\* i, i+f, i+2f, ... in that relative order.
C12_RoundRobinByPosition ==
    probe.op = "create_recursion_payloads" =>
        \A b \in 1..Len(probe.children_payloads) :
            LET child == probe.children_payloads[b].payload.specs
                positions == {p \in 0..(Len(probe.specs) - 1) : p % probe.factor = b - 1}
            IN  /\ Len(child) = Cardinality(positions)
                /\ \A k \in 1..Len(child) :
                      child[k] = probe.specs[(b - 1) + (k - 1) * probe.factor + 1]

\* C12 witness: 4 distinct specs with factor 3: child 0 holds positions 0 and 3,
\* children 1 and 2 hold positions 1 and 2.
C12_Witness ==
    /\ probe.op = "create_recursion_payloads"
    /\ probe.factor = 3
    /\ Len(probe.specs) = 4
    /\ \A i, j \in 1..4 : i # j => probe.specs[i] # probe.specs[j]
    /\ probe.children_payloads[1].payload.specs = <<probe.specs[1], probe.specs[4]>>
    /\ probe.children_payloads[2].payload.specs = <<probe.specs[2]>>
    /\ probe.children_payloads[3].payload.specs = <<probe.specs[3]>>

\* C13: create_recursion_payloads on any batch returns exactly `factor` child
\* batches and exactly `factor` dispatch triggers, trigger i carrying child i.
C13_ExactlyFactorChildren ==
    probe.op = "create_recursion_payloads" =>
        /\ Len(probe.children_payloads) = probe.factor
        /\ Len(probe.triggers) = probe.factor
        /\ \A i \in 1..probe.factor :
              /\ probe.triggers[i].input = probe.children_payloads[i]
              /\ probe.triggers[i].additional_metadata.index = i - 1

\* C13 witness: a batch with fewer specs than the factor still yields one
\* child and one trigger per branch, the last ones with no spec.
C13_Witness ==
    /\ probe.op = "create_recursion_payloads"
    /\ probe.factor = 3
    /\ Len(probe.specs) = 1
    /\ Len(probe.triggers) = 3
    /\ probe.triggers[3].input.payload.specs = <<>>

\* ------------------------------------------------------------ tree shape
Parent(path) == SubSeq(path, 1, Len(path) - 1)

\* C14: in every reachable state of a tree run every node's address depth is
\* at most max_depth: no node at depth >= max_depth splits, and none splits
\* when max_depth is 0.
C14_DepthBounded ==
    \A path \in DOMAIN nodes :
        /\ Len(path) <= nodes[path].max_depth
        /\ nodes[path].branch = "recurse" =>
              /\ Len(path) < nodes[path].max_depth
              /\ nodes[path].max_depth # 0

\* C14 witness: a node at depth max_depth = 2 holds more specs than the factor
\* and runs them as a leaf.
C14_Witness ==
    \E path \in DOMAIN nodes :
        /\ Len(path) = 2
        /\ nodes[path].max_depth = 2
        /\ Len(nodes[path].specs) > nodes[path].factor
        /\ nodes[path].branch = "leaf"

\* C15: when a batch with factor >= 2 and more specs than the factor is split,
\* every child batch holds strictly fewer specs than the parent.
C15_ChildrenShrink ==
    (/\ probe.op = "create_recursion_payloads"
     /\ probe.factor >= 2
     /\ Len(probe.specs) > probe.factor) =>
        \A b \in 1..Len(probe.children_payloads) :
            Len(probe.children_payloads[b].payload.specs) < Len(probe.specs)

\* C15 witness: 3 specs with factor 2: child 0 holds 2 specs, child 1 holds 1.
C15_Witness ==
    /\ probe.op = "create_recursion_payloads"
    /\ probe.factor = 2
    /\ Len(probe.specs) = 3
    /\ Len(probe.children_payloads[1].payload.specs) = 2
    /\ Len(probe.children_payloads[2].payload.specs) = 1

\* C16 (as claimed): with factor 1 the condition len(specs) <= factor alone
\* stops the recursion: every leaf below the root of a factor-1 tree holds at
\* most one spec, so that it is a leaf whatever max_depth is.
C16_FactorOneStopsOnSpecCount ==
    \A path \in DOMAIN nodes :
        (/\ nodes[path].factor = 1
         /\ path # <<>>
         /\ nodes[path].branch = "leaf") =>
            Len(nodes[path].specs) <= nodes[path].factor

\* C17: every child's address is its parent's address with the one coordinate
\* (factor, i) appended for child index i: the child is one level deeper, the
\* parent's address is a prefix of the child's, and every coordinate of every
\* address in the tree has offset < factor.
C17_ChildAddress ==
    /\ \A path \in DOMAIN nodes :
          /\ \A k \in 1..Len(path) : path[k].offset \in 0..(path[k].factor - 1)
          /\ path # <<>> =>
                /\ Parent(path) \in DOMAIN nodes
                /\ nodes[Parent(path)].branch = "recurse"
                /\ path[Len(path)].factor = nodes[Parent(path)].factor
    /\ \A path \in DOMAIN nodes :
          nodes[path].branch = "recurse" =>
              \A i \in 0..(nodes[path].factor - 1) :
                  Append(path, RecursionSpec(nodes[path].factor, i)) \in DOMAIN nodes

\* C17 witness: a started node whose address is the root's with the
\* coordinate (2, 1) appended.
C17_Witness ==
    \E path \in DOMAIN nodes :
        /\ path = <<RecursionSpec(2, 1)>>
        /\ nodes[path].state # "UNSTARTED"
        /\ Root.branch = "recurse"

\* ------------------------------------------------------------ addresses
\* C18: constructing a recursion coordinate with offset >= factor is rejected
\* for every factor >= 1, and one with 0 <= offset < factor is accepted.
C18_OffsetBelowFactor ==
    (/\ probe.op = "RecursionSpec"
     /\ probe.factor >= 1
     /\ ~probe.offset.is_none) =>
        /\ probe.offset.value >= probe.factor => probe.raised
        /\ (0 <= probe.offset.value /\ probe.offset.value < probe.factor) => ~probe.raised

\* C18 witness: the coordinate (factor 2, offset 2) is rejected.
C18_Witness ==
    /\ probe.op = "RecursionSpec"
    /\ probe.factor = 2
    /\ probe.offset = Some(2)
    /\ probe.raised

ValidFields == probe.factor >= 1 /\ probe.max_depth \in 0..MaxDepthLimit

\* C19 (as claimed): an address is the root if and only if its path is empty
\* or absent: an address given with no path or with an empty path is built and
\* is_root is true of it, and is_root is false of every other address.
C19_RootIffEmptyOrAbsent ==
    (probe.op = "RecursionMap" /\ ValidFields) =>
        IF probe.path.is_none \/ probe.path.value = <<>>
        THEN ~probe.raised /\ probe.is_root
        ELSE ~probe.raised /\ ~probe.is_root

\* C19 (amended): an address is the root if and only if its path is absent:
\* an address given with no path is built and is_root is true of it, an
\* address given as an empty path is rejected at construction, and is_root is
\* false of every address built from a path.
C19_RootIffAbsent ==
    (probe.op = "RecursionMap" /\ ValidFields) =>
        IF probe.path.is_none THEN ~probe.raised /\ probe.is_root
        ELSE IF probe.path.value = <<>> THEN probe.raised
        ELSE ~probe.raised /\ ~probe.is_root

\* C19 witness: RecursionMap(path=[], factor=2, max_depth=1) is rejected.
C19_Witness ==
    /\ probe.op = "RecursionMap"
    /\ probe.path = Some(<<>>)
    /\ probe.factor = 2
    /\ probe.max_depth = 1
    /\ probe.raised

\* ------------------------------------------------------------ root run id
\* C20: the shared root run id is assigned by the node at depth 0 to every
\* spec of the root batch before any dispatch, and no other node changes it:
\* the specs of every node that has dispatched, and of every child batch,
\* carry the root node's run id, and so does every row a leaf unit returned.
C20_RootRunIdShared ==
    \A path \in DOMAIN nodes :
        /\ (path # RootPath \/ nodes[path].branch # "none") =>
              \A i \in 1..Len(nodes[path].specs) :
                  nodes[path].specs[i].root_workflow_run_id = RunIdOf(RootPath)
        /\ \A k \in 1..Len(Rows(nodes[path].merged, "scalars")) :
              Rows(nodes[path].merged, "scalars")[k].key.root_workflow_run_id
                  = RunIdOf(RootPath)

\* C20 witness: a leaf one level below the root, whose own run id differs
\* from the root's, has merged the row of a unit it dispatched.
C20_Witness ==
    \E path \in DOMAIN nodes :
        /\ Len(path) = 1
        /\ RunIdOf(path) # RunIdOf(RootPath)
        /\ nodes[path].branch = "leaf"
        /\ nodes[path].state = "MERGING"
        /\ Len(Rows(nodes[path].merged, "scalars")) >= 1

\* ------------------------------------------------------------ combine
\* The rows of the tables called `key` in the inputs before input i.
RECURSIVE RowsBefore(_, _, _)
RowsBefore(experiment_outputs, key, i) ==
    IF i <= 1 THEN 0
    ELSE RowsBefore(experiment_outputs, key, i - 1)
         + Len(Rows(experiment_outputs[i - 1].dataframes, key))

\* C21: combine yields, for every table name that appears in any input, one
\* table holding the rows of all input tables of that name in the order
\* encountered, its row count the sum of theirs, and no other table name.
C21_CombineConcatenates ==
    probe.op = "combine_experiment_outputs" =>
        LET outs == probe.experiment_outputs
            n == Len(outs)
            combined == probe.ret.dataframes
        IN  /\ DOMAIN combined = UNION {DOMAIN outs[i].dataframes : i \in 1..n}
            /\ \A key \in DOMAIN combined :
                  /\ Len(combined[key]) = RowsBefore(outs, key, n + 1)
                  /\ \A i \in 1..n :
                        \A j \in 1..Len(Rows(outs[i].dataframes, key)) :
                            combined[key][RowsBefore(outs, key, i) + j]
                                = outs[i].dataframes[key][j]

\* C21 witness: three outputs, the middle one without a `results` table, give
\* a `results` table of the first one's rows followed by the last one's.
C21_Witness ==
    /\ probe.op = "combine_experiment_outputs"
    /\ Len(probe.experiment_outputs) = 3
    /\ "results" \notin DOMAIN probe.experiment_outputs[2].dataframes
    /\ "scalars" \in DOMAIN probe.experiment_outputs[2].dataframes
    /\ Rows(probe.experiment_outputs[1].dataframes, "results") = <<1>>
    /\ Rows(probe.experiment_outputs[3].dataframes, "results") = <<0, 1>>
    /\ probe.ret.dataframes["results"] = <<1, 0, 1>>

\* C23: combine is associative on content: merging [A, B, C] directly gives
\* the same tables, with the same rows in the same order, as merging [A, B]
\* and then merging that result with C.
C23_CombineAssociative ==
    (probe.op = "combine_experiment_outputs" /\ Len(probe.experiment_outputs) >= 1) =>
        probe.regrouped = probe.ret

\* C23 witness: A, B and C all hold a non-empty `results` table, and A and C
\* differ.
C23_Witness ==
    /\ probe.op = "combine_experiment_outputs"
    /\ Len(probe.experiment_outputs) = 3
    /\ \A i \in 1..3 : Rows(probe.experiment_outputs[i].dataframes, "results") # <<>>
    /\ probe.experiment_outputs[1] # probe.experiment_outputs[3]
    /\ probe.regrouped = probe.ret

\* C22 (as claimed): a result table whose name collides with a reserved name
\* raises instead of being merged: adding scalars (of an output that has scalar
\* fields) when a `scalars` table is already there raises and leaves the
\* tables unchanged, and merging an error frame into result tables that
\* already hold the error-table name raises.
C22_NamingCollisionRaises ==
    /\ (/\ probe.op = "_add_scalars"
        /\ probe.has_scalar_fields
        /\ "scalars" \in DOMAIN probe.dataframes) =>
           (probe.ret.raised /\ probe.ret.dataframes = probe.dataframes)
    /\ (/\ probe.op = "merge_outputs"
        /\ probe.experiment_outputs[1].errors.present
        /\ "errors" \in DOMAIN probe.experiment_outputs[1].success.dataframes) =>
           probe.raised

\* ------------------------------------------------------------ state machine
\* One step of the node at `path`, as the state machine allows it.
StepAllowed(path) ==
    LET old == nodes[path].state
        new == nodes'[path].state
        node == nodes'[path]
        is_leaf == IsBaseCase(Len(node.specs), node.factor, node.max_depth, path)
        has_children == \E b \in 0..(node.factor - 1) :
                            ChildPath(path, node.factor, b) \in DOMAIN nodes'
        all_reported == \A i \in 1..node.dispatched : HasArrived(node, i)
    IN  \/ new = old
        \/ old = "UNSTARTED" /\ new = "EXECUTING_LEAVES" /\ is_leaf /\ ~has_children
        \/ old = "UNSTARTED" /\ new = "DISPATCHING_CHILDREN" /\ ~is_leaf /\ has_children
        \/ old \in {"EXECUTING_LEAVES", "DISPATCHING_CHILDREN"} /\ new = "MERGING"
              /\ all_reported
        \/ old = "MERGING" /\ new = "PUBLISHED"
        \/ old \notin Finished /\ new = "FAILED"

\* C24: a node follows UNSTARTED -> (EXECUTING_LEAVES if is_leaf, else
\* DISPATCHING_CHILDREN) -> MERGING -> PUBLISHED: it executes leaf units or
\* dispatches children, never both, merges only once every run of its single
\* dispatch phase has reported and publishes only from MERGING; a run that
\* raises goes to FAILED from any unfinished state.
C24_StateMachine ==
    [][\A path \in DOMAIN nodes : StepAllowed(path)]_vars

\* C24 witness: the root split in two, both children ran their specs as
\* leaves and published, and the root has merged and published.
C24_Witness ==
    /\ Root.state = "PUBLISHED"
    /\ Root.branch = "recurse"
    /\ Root.factor = 2
    /\ \A b \in 1..2 :
          /\ nodes[Child(RootPath, b)].state = "PUBLISHED"
          /\ nodes[Child(RootPath, b)].branch = "leaf"
          /\ nodes[Child(RootPath, b)].dispatched >= 1

\* ------------------------------------------------------------ publication
\* C25 (as claimed): publishing a merged output, then fetching and
\* reconstructing it from the published ScatterGatherResult, yields the same
\* set of tables with the same rows as the merged output, the error table
\* included.
C25_PublishFetchRoundTrip ==
    \A path \in DOMAIN nodes :
        nodes[path].state = "PUBLISHED" =>
            LET gathered == ToGatheredExperimentRuns([uris |-> nodes[path].uris])
            IN  /\ DOMAIN gathered.success.dataframes \cup
                      (IF gathered.errors.present THEN {"errors"} ELSE {})
                          = DOMAIN nodes[path].merged
                /\ \A key \in DOMAIN gathered.success.dataframes :
                      gathered.success.dataframes[key] = Rows(nodes[path].merged, key)

\* The names of ProbeTableNames that contain "error", in any letter case.
ErrorNamed == {"errors", "Errors", "terror"}

RegistryStep ==
    /\ \A name \in DOMAIN experiments_dict :
          /\ name \in DOMAIN experiments_dict'
          /\ experiments_dict'[name] = experiments_dict[name]
    /\ probe'.op = "Include" =>
          IF probe'.name \in DOMAIN experiments_dict
          THEN probe'.raised = "ExperimentTypeExists" /\ experiments_dict' = experiments_dict
          ELSE /\ probe'.raised = "none"
               /\ DOMAIN experiments_dict' = DOMAIN experiments_dict \cup {probe'.name}
               /\ experiments_dict'[probe'.name] = probe'.task
    /\ probe'.op = "get_experiment" =>
          /\ experiments_dict' = experiments_dict
          /\ IF probe'.name \in DOMAIN experiments_dict
             THEN probe'.raised = "none" /\ probe'.ret = experiments_dict[probe'.name]
             ELSE probe'.raised = "ExperimentTypeNotFound"

\* C28: the registry rejects duplicate registration and unknown lookup: over
\* any sequence of Include and get_experiment calls a registered name keeps
\* the task first registered under it, a second Include of the same name
\* raises ExperimentTypeExists and leaves the registry unchanged, and
\* get_experiment of an unregistered name raises ExperimentTypeNotFound.
C28_RegistryRejects == [][RegistryStep]_vars

\* C28 witness: a second task was just refused under the name `foo`, which
\* still maps to the first one.
C28_Witness ==
    /\ probe.op = "Include"
    /\ probe.name = "foo"
    /\ probe.raised = "ExperimentTypeExists"
    /\ experiments_dict["foo"] # probe.task

\* ------------------------------------------------------------ fetch_uri
\* C29: fetch_uri short-circuits exactly when use_cache is set and the local
\* path already exists: then nothing is downloaded or copied and the local
\* file is left as it is, even if the remote content changed; in every other
\* case of a call that returns it downloads once and overwrites the local file.
C29_FetchShortCircuit ==
    (probe.op = "fetch_uri" /\ probe.ret.raised = "none") =>
        IF probe.use_cache /\ probe.local.exists
        THEN probe.ret.downloads = 0 /\ probe.ret.local = probe.local
        ELSE probe.ret.downloads = 1 /\ probe.ret.local = File(probe.remote)

\* C29 witness: the local copy is stale, use_cache is set, and the stale copy
\* is what the call leaves.
C29_Witness ==
    /\ probe.op = "fetch_uri"
    /\ probe.scheme = "s3"
    /\ probe.use_cache
    /\ probe.local = File(1)
    /\ probe.remote = 2
    /\ probe.ret.raised = "none"
    /\ probe.ret.local = File(1)

\* ------------------------------------------------------------ empty batches
\* The children a batch of one spec is split into, for every factor.
SplitOfOne(factor) ==
    CreateRecursionPayloads(NewNode(RootSpecs(1), factor, MaxDepthLimit, FALSE), RootPath)

\* C30: a batch with zero specs is legal: its node is a leaf, dispatches no
\* unit, raises nothing of its own (only a storage fault can fail it) and
\* publishes an empty result; and a split hands the children that get no spec
\* an empty batch, which is a leaf in turn.
C30_EmptyBatchLegal ==
    /\ \A path \in DOMAIN nodes :
          nodes[path].specs = <<>> =>
              /\ nodes[path].branch # "recurse"
              /\ nodes[path].dispatched = 0
              /\ nodes[path].arrived = <<>>
              /\ nodes[path].exc \in {"none", "StorageError"}
              /\ nodes[path].state \in {"MERGING", "PUBLISHED"} =>
                    nodes[path].merged = NoTables
              /\ nodes[path].state = "PUBLISHED" => nodes[path].uris = NoTables
    /\ \A factor \in 2..(MaxFactor + 1) :
          /\ Len(SplitOfOne(factor)) = factor
          /\ \A b \in 2..factor :
                /\ SplitOfOne(factor)[b].payload.specs = <<>>
                /\ IsBaseCase(0, factor, MaxDepthLimit, SplitOfOne(factor)[b].path)

\* C30 witness: a root with no spec ran as a leaf and published no table.
C30_Witness ==
    /\ Root.specs = <<>>
    /\ Root.branch = "leaf"
    /\ Root.max_depth > 0
    /\ Root.state = "PUBLISHED"
    /\ Root.uris = NoTables

\* ------------------------------------------------------------ leaf dispatch
\* C31: a leaf dispatches exactly one unit of work per spec of its batch, in
\* the batch's original order, as one parallel batch request, unit i tagged
\* with positional index i; no spec is dispatched twice or skipped.
C31_OneUnitPerSpec ==
    probe.op = "run_experiments" =>
        /\ Len(probe.calls) = 1
        /\ Len(probe.calls[1]) = Len(probe.specs)
        /\ \A k \in 1..Len(probe.specs) :
              /\ probe.calls[1][k].input = probe.specs[k]
              /\ probe.calls[1][k].additional_metadata.index = k - 1

\* C31 witness: a batch of three specs, two of them equal, went out as one
\* request of three items tagged 0, 1, 2.
C31_Witness ==
    /\ probe.op = "run_experiments"
    /\ Len(probe.specs) = 3
    /\ probe.specs[1] = probe.specs[3]
    /\ probe.specs[1] # probe.specs[2]
    /\ Len(probe.calls) = 1
    /\ [k \in 1..3 |-> probe.calls[1][k].additional_metadata.index] = <<0, 1, 2>>

\* ------------------------------------------------------------ split frame
\* C32: split never edits the parent batch: after create_recursion_payloads
\* the parent's address path, factor, max_depth, specs reference and spec
\* list are what they were, and each child is a fresh batch value with an
\* address path of its own (the parent's path plus its branch coordinate)
\* and a specs reference of its own.
C32_SplitLeavesParent ==
    probe.op = "create_recursion_payloads" =>
        /\ probe.self_after = probe.self_before
        /\ \A b \in 1..probe.factor :
              /\ probe.new_paths[b] = probe.children_payloads[b].path
              /\ probe.new_paths[b] # probe.self_after.path
              /\ probe.specs_paths[b] # probe.self_after.specs_path
              /\ \A c \in 1..probe.factor :
                    c # b => /\ probe.new_paths[c] # probe.new_paths[b]
                             /\ probe.specs_paths[c] # probe.specs_paths[b]

\* C32 witness: a node one level down split four specs in two; it still
\* holds its one-coordinate path and its four specs, the children hold
\* two-coordinate paths.
C32_Witness ==
    /\ probe.op = "create_recursion_payloads"
    /\ probe.factor = 2
    /\ Len(probe.self_before.path) = 1
    /\ Len(probe.self_after.path) = 1
    /\ Len(probe.self_after.specs) = 4
    /\ Len(probe.new_paths[1]) = 2
    /\ Len(probe.new_paths[2]) = 2
    /\ probe.specs_paths[1] # probe.specs_paths[2]

\* ------------------------------------------------------------ specs cache
\* C33: within one node run the specs reference is resolved at most once:
\* however many times the spec list is read (root-id annotation, leaf test,
\* split or execution) the blob is fetched and parsed once and every read
\* sees the same list, so the root run id the root wrote is on the specs
\* that are later split or dispatched.
C33_SpecsResolvedOnce ==
    probe.op = "specs" =>
        /\ probe.ret.self.fetches <= 1
        /\ \A i, j \in 1..Len(probe.ret.reads) : probe.ret.reads[i] = probe.ret.reads[j]
        /\ (probe.path = RootPath /\ ~probe.ret.raised) =>
              LET used == probe.ret.reads[Len(probe.ret.reads)]
              IN  \A k \in 1..Len(probe.blob) :
                     used[k].root_workflow_run_id = RunIdOf(RootPath)

\* C33 witness: a root run read its three specs three times on one fetch,
\* and the list it dispatched carries the root run id.
C33_Witness ==
    /\ probe.op = "specs"
    /\ probe.path = RootPath
    /\ Len(probe.blob) = 3
    /\ ~probe.ret.raised
    /\ Len(probe.ret.reads) = 3
    /\ probe.ret.self.fetches = 1
    /\ probe.ret.reads[3][2].root_workflow_run_id = RunIdOf(RootPath)

\* ------------------------------------------------------------ sort_index
\* The rows of the specs blob once allocate has written the run's identity
\* onto the specs.
AllocateValidated == allocation.pc \in {"upload_artifacts", "upload_specs", "dispatch", "done"}

\* C34: sort_index is unique within every batch of a tree: allocate with
\* overwrite_sort_index gives the root specs the indices 0..n-1 by position,
\* and every child batch a split produces keeps its specs' sort_index values,
\* so no batch holds two specs with the same sort_index.
C34_SortIndexUnique ==
    (AllocateValidated /\ allocation.overwrite_sort_index) =>
        LET root == SpecsDump(allocation.objects, allocation.specs)
        IN  /\ \A i \in 1..Len(root) : root[i].sort_index = i - 1
            /\ \A factor \in 1..(MaxFactor + 1), branch_ix \in 0..MaxFactor :
                  branch_ix < factor =>
                      LET child == Stride(root, branch_ix, factor)
                      IN  \A j, k \in 1..Len(child) :
                             j # k => child[j].sort_index # child[k].sort_index

\* ------------------------------------------------------------ zero depth
\* C35: with max_depth = 0 the root is a leaf whatever its spec count, so a
\* run with the default recursion map of allocate (factor 10, max_depth 0)
\* never dispatches a child batch: the root dispatches all specs itself.
C35_ZeroDepthRootIsLeaf ==
    /\ Root.max_depth = 0 =>
          /\ DOMAIN nodes = {RootPath}
          /\ Root.branch # "recurse"
          /\ Root.branch = "leaf" => Root.dispatched = Len(Root.specs)
    /\ \A n_specs \in 0..(DefaultRecursionMap.factor + MaxSpecs) :
          IsBaseCase(n_specs, DefaultRecursionMap.factor,
                     DefaultRecursionMap.max_depth, RootPath)

\* C35 witness: a root with max_depth 0 and more specs than its factor ran
\* them all as a leaf and published.
C35_Witness ==
    /\ Root.max_depth = 0
    /\ Len(Root.specs) > Root.factor
    /\ Root.branch = "leaf"
    /\ Root.dispatched = Len(Root.specs)
    /\ Root.state = "PUBLISHED"

\* ------------------------------------------------------------ rejection
\* What allocate was given: a spec of a foreign type; or, all specs being of
\* the input type, two local files of one field that map to one upload key.
GivenMismatch ==
    \E i \in 1..Len(allocation.specs) : ~allocation.given[allocation.specs[i]].is_input

GivenDuplicate ==
    /\ ~GivenMismatch
    /\ \E p, q \in {allocation.given[allocation.specs[i]].file : i \in 1..Len(allocation.specs)} :
          /\ p.is_local /\ q.is_local
          /\ p # q
          /\ p.name = q.name

\* C36: when allocate rejects its input, a spec that is not an instance of
\* the experiment's input type (ExperimentSpecsMismatchError) or two input
\* artifacts of one field that map to the same upload key
\* (DuplicateInputArtifactsError), the error is raised before any artifact,
\* specs blob or manifest is uploaded and before any root run is dispatched.
C36_RejectedBeforeEffects ==
    /\ allocation.exc \in {"ExperimentSpecsMismatchError", "DuplicateInputArtifactsError"} =>
          allocation.events = <<>>
    /\ GivenMismatch =>
          /\ allocation.events = <<>>
          /\ allocation.pc # "validate" => allocation.exc = "ExperimentSpecsMismatchError"
    /\ GivenDuplicate =>
          /\ allocation.events = <<>>
          /\ allocation.pc # "validate" => allocation.exc = "DuplicateInputArtifactsError"

\* C36 witness: two specs of the input type with files a/f.txt and b/f.txt
\* were rejected as duplicates, nothing uploaded and nothing dispatched.
C36_Witness ==
    /\ allocation.pc = "raised"
    /\ allocation.exc = "DuplicateInputArtifactsError"
    /\ Len(allocation.specs) = 2
    /\ GivenDuplicate
    /\ allocation.events = <<>>

\* ------------------------------------------------------------ dispatch order
\* The positions of the run events among allocate's effects.
RunEvents == {j \in 1..Len(allocation.events) : allocation.events[j].kind = "run"}

\* C37: a batch is dispatched only after its specs blob has been uploaded,
\* and its specs reference is the url of that blob: allocate uploads the
\* specs, then dispatches exactly one root run built from the returned url,
\* then writes the manifest with that run's id.
C37_DispatchAfterUpload ==
    /\ \A j \in RunEvents :
          \E i \in 1..(j - 1) :
             /\ allocation.events[i].kind = "upload"
             /\ \E key \in allocation.events[i].keys :
                   allocation.events[j].input.specs_path = S3Uri("b", key)
    /\ (allocation.specs_uri # <<>> /\ allocation.pc # "dispatch") =>
          /\ allocation.pc = "done"
          /\ Cardinality(RunEvents) = 1
          /\ \A j \in RunEvents :
                /\ allocation.events[j].input.specs_path = allocation.specs_uri
                /\ allocation.events[Len(allocation.events)] =
                      UploadEvent({ManifestFilekey}, allocation.events[j].workflow_run_id)

\* ------------------------------------------------------------ children's errors
\* C38: every child batch a split creates has error persistence disabled
\* (save_errors false) whatever the parent's setting, so no node below the
\* root ever uploads an error table.
C38_ChildrenNeverSaveErrors ==
    \A path \in DOMAIN nodes :
        path # RootPath =>
            /\ ~nodes[path].save_errors
            /\ \A name \in DOMAIN nodes[path].uris : ~ContainsError(name)

\* C38 witness: under a root that saves errors, a child merged an error
\* table and published without it.
C38_Witness ==
    /\ Root.save_errors
    /\ \E path \in DOMAIN nodes :
          /\ path # RootPath
          /\ nodes[path].state = "PUBLISHED"
          /\ "errors" \in DOMAIN nodes[path].merged
          /\ "errors" \notin DOMAIN nodes[path].uris

\* ------------------------------------------------------------ blob keys
\* C39: within one tree run no two blob uploads use the same key, the task
\* engine's run ids being unique: the input blobs a parent writes for its
\* children differ by branch index under the parent's run id, the output
\* tables of different nodes differ by run id, so no node overwrites
\* another node's blob.
C39_BlobKeysUnique ==
    \A u, v \in Uploads : u.uri = v.uri => u = v

\* C39 witness: a root that split in two has published, and so have both
\* children: two input blobs and the output tables of three runs, all under
\* different keys.
C39_Witness ==
    /\ Root.branch = "recurse"
    /\ Root.factor = 2
    /\ \A path \in DOMAIN nodes : Len(path) <= 1 /\ nodes[path].state = "PUBLISHED"
    /\ Cardinality({u.writer : u \in Uploads}) = 3
    /\ Cardinality({u.uri : u \in Uploads}) >= 5

\* ------------------------------------------------------------ make_multiindex
\* C40: make_multiindex given a list of n_rows additional-index dicts, none
\* of whose keys is a field of the spec, succeeds for every n_rows >= 1 and
\* returns n_rows index rows, row i carrying the spec's identity fields plus
\* the i-th dict's values; it raises only when the list length differs from
\* n_rows or a key overlaps a spec field.
C40_MultiindexRowPerDict ==
    (probe.op = "make_multiindex" /\ probe.additional_index_data.kind = "list") =>
        LET list == probe.additional_index_data.list
            fits == Len(list) = probe.n_rows
            overlaps == \E i \in 1..Len(list) :
                            DOMAIN list[i] \cap DOMAIN probe.dumped_index # {}
        IN  /\ probe.ret.raised # "none" => (~fits \/ overlaps)
            /\ (fits /\ ~overlaps) =>
                  /\ probe.ret.raised = "none"
                  /\ Len(probe.ret.rows) = probe.n_rows
                  /\ \A i \in 1..probe.n_rows :
                        /\ \A field \in DOMAIN probe.dumped_index :
                              probe.ret.rows[i][field] = probe.dumped_index[field]
                        /\ \A key \in DOMAIN list[i] :
                              probe.ret.rows[i][key] = list[i][key]

====
